---------------------------- MODULE Spec2Model ----------------------------
(***************************************************************************)
(* Model of the prison-report extraction pipeline                          *)
(*   src/functions/file_scraping_functions.py                              *)
(*   src/functions/processing_data_functions.py                            *)
(*                                                                         *)
(* The module holds one state machine per component, each with its own     *)
(* specification over the shared variables:                                *)
(*   SpecValid   - the text validity oracle  (is_valid_doc_text)           *)
(*   SpecDate    - the date resolver  (extract_report_date_from_file)      *)
(*   SpecParse   - the per-format tabular parsers                          *)
(*   SpecCombine - the corpus combiner  (combine_prison_data)              *)
(* A variable group that a specification does not use keeps its idle       *)
(* value.                                                                  *)
(*                                                                         *)
(* Texts are TLA+ strings; a text that may hold characters a TLA+ string   *)
(* literal cannot (NUL, non-ASCII) is a sequence of code points.           *)
(***************************************************************************)
EXTENDS Integers, Sequences, FiniteSets, TLC

VARIABLES
    \* ---- text validity oracle ----
    vtext,      \* the text under validation: a sequence of code points
    vchunks,    \* number of chunks appended to vtext so far
    vpc,        \* "build" while the text is assembled, "judged" after the call
    verdict     \* what is_valid_doc_text returned (meaningful once vpc = "judged")

VARIABLES
    \* ---- text recovery of a legacy file: doc_to_text ----
    tsystem,    \* platform.system()
    tpc,        \* the stage doc_to_text is about to attempt; "returned" after it
    ttrace,     \* the stages attempted so far, each with what became of it
    tout,       \* the text doc_to_text returned (<<>> for "")
    tacquired,  \* the Word application handles acquired so far
    tquit,      \* the Word application handles Quit has been called on
    tcall,      \* the call: the function that needs the text, the path it was given
                \* and whether the file the path names without '~$' exists
    topened     \* the file each stage attempted so far was directed at

VARIABLES
    \* ---- one file through process_prison_file ----
    xfile,      \* the file: its name and what its format parser makes of it
    xpc,        \* "extract", then "process", then "done"
    xdf,        \* what extract_prison_data returned
    xout        \* what process_prison_file returned

VARIABLES
    \* ---- date resolver ----
    dname,      \* file_path: the file's name, as written on disk
    dpages,     \* the recovered content: one text per page (one text for rtf, docx, doc)
    dpc,        \* "content", "filename", "families": the attempt due next; then "done"
    dres,       \* the date returned: [y, m, d], or Null
    dsrc        \* which attempt produced dres: "content", "filename", "family", "none"

VARIABLES
    \* ---- corpus combiner ----
    cdir,            \* the files under the root directory, in directory order
    cenv,            \* the environment: state of the output directory, case rule of the file system
    cpc,             \* "start", "loop", then "returned" or "raised"
    cidx,            \* position of the loop in cfiles
    cfiles,          \* files: the list the globs produced
    processed_files, \* paths already dispatched
    dfs,             \* the accumulated per-file tables
    all_columns,     \* union of the columns of the accumulated tables
    combined,        \* the table returned, Null before the return
    cwrites,         \* the CSV files written to the output directory, in order
    cerr             \* the exception raised to the caller, "none" otherwise

VARIABLES
    \* ---- tabular parsers ----
    pfile,              \* the file: format, name, pages of lines, tables (with the
                        \* page each is on), sheet rows
    ppc,                \* "gate", "scan" or "sheet" while the parser runs, then "done"
    ppage,              \* the page the loop is on
    pline,              \* the line the loop is on (0: the page is yet to be entered)
    column_names,       \* column_names; <<>> while None
    data,               \* data / all_data: the rows collected, each with the position of its line
    rejected,           \* the rows the pdf parser's field-count test turned away
    in_data_section,
    data_section_ended,
    current_prison,     \* the pdf parser's held prison name, or Null
    pout,               \* what the parser handed back: Returns(table) or Raises; Null before
    psrc,               \* for each row of the returned table, the position of its line
    pqueue,             \* the files the same process is still to parse, in order
    presults            \* the file and the table of each call already returned

docVars == <<tsystem, tpc, ttrace, tout, tacquired, tquit, tcall, topened>>
validVars == <<vtext, vchunks, vpc, verdict, docVars>>
dateVars == <<dname, dpages, dpc, dres, dsrc>>
processVars == <<xfile, xpc, xdf, xout>>
combineVars == <<cdir, cenv, cpc, cidx, cfiles, processed_files, dfs, all_columns,
                 combined, cwrites, cerr, processVars>>

parseVars == <<pfile, ppc, ppage, pline, column_names, data, rejected, in_data_section,
               data_section_ended, current_prison, pout, psrc, pqueue, presults>>

vars == <<vtext, vchunks, vpc, verdict, tsystem, tpc, ttrace, tout, tacquired, tquit, tcall,
          topened, dname, dpages, dpc, dres, dsrc,
          cdir, cenv, cpc, cidx, cfiles, processed_files, dfs, all_columns,
          combined, cwrites, cerr, xfile, xpc, xdf, xout,
          pfile, ppc, ppage, pline, column_names, data, rejected, in_data_section,
          data_section_ended, current_prison, pout, psrc, pqueue, presults>>

\* Values that may be missing are tagged records:
\*   Null              Python None / pandas NaN / NaT / a failed re.search
\*   Str(s)            a string
\*   Date(y, m, d)     a datetime.date
Null == [k |-> "null"]
Str(s) == [k |-> "str", s |-> s]
Date(y, m, d) == [k |-> "date", y |-> y, m |-> m, d |-> d]

\* the value of each variable group while its component is not running
DocIdle ==
    /\ tsystem = "Linux" /\ tpc = "idle" /\ ttrace = <<>> /\ tout = <<>>
    /\ tacquired = 0 /\ tquit = 0
    /\ tcall = [caller |-> "none", path |-> "", sibling |-> FALSE] /\ topened = <<>>
ValidIdle == vtext = <<>> /\ vchunks = 0 /\ vpc = "idle" /\ verdict = FALSE /\ DocIdle
DateIdle == dname = "" /\ dpages = <<>> /\ dpc = "idle" /\ dres = Null /\ dsrc = "none"
ProcessIdle == xfile = Null /\ xpc = "idle" /\ xdf = Null /\ xout = Null

CombinerIdle ==
    /\ cdir = <<>> /\ cenv = [out |-> "exists", case_insensitive |-> FALSE]
    /\ cpc = "idle" /\ cidx = 0 /\ cfiles = <<>> /\ processed_files = {}
    /\ dfs = <<>> /\ all_columns = {} /\ combined = Null /\ cwrites = <<>>
    /\ cerr = "none"

CombineIdle == CombinerIdle /\ ProcessIdle

ParseIdle ==
    /\ pfile = Null /\ ppc = "idle" /\ ppage = 0 /\ pline = 0 /\ column_names = <<>>
    /\ data = <<>> /\ rejected = <<>> /\ in_data_section = FALSE
    /\ data_section_ended = FALSE /\ current_prison = Null /\ pout = Null /\ psrc = <<>>
    /\ pqueue = <<>> /\ presults = <<>>

-----------------------------------------------------------------------------
(* Characters and strings *)

\* the printable ASCII characters 32..95 and 97..126 (a TLA+ string cannot hold code 96)
PrintableLo == " !\"#$%&'()*+,-./0123456789:;<=>?@ABCDEFGHIJKLMNOPQRSTUVWXYZ[\\]^_"
PrintableHi == "abcdefghijklmnopqrstuvwxyz{|}~"

Ch(s, i) == SubSeq(s, i, i)

\* ord(c) for the characters a TLA+ string can hold
Ord(c) ==
    IF c = "\n" THEN 10
    ELSE IF c = "\t" THEN 9
    ELSE IF c = "\r" THEN 13
    ELSE IF c = "\f" THEN 12
    ELSE IF \E i \in 1..Len(PrintableLo) : Ch(PrintableLo, i) = c
         THEN 31 + (CHOOSE i \in 1..Len(PrintableLo) : Ch(PrintableLo, i) = c)
    ELSE 96 + (CHOOSE i \in 1..Len(PrintableHi) : Ch(PrintableHi, i) = c)

\* the code points of a string
Codes(s) == [i \in 1..Len(s) |-> Ord(Ch(s, i))]

\* p in s  (Python substring test), on strings and on code-point sequences alike
Has(s, p) == \E i \in 1..(Len(s) - Len(p) + 1) : SubSeq(s, i, i + Len(p) - 1) = p

\* s.count(p): occurrences of p in s, scanned left to right without overlap
RECURSIVE CountFrom(_, _, _)
CountFrom(s, p, i) ==
    LET hits == {k \in i..(Len(s) - Len(p) + 1) : SubSeq(s, k, k + Len(p) - 1) = p}
    IN  IF hits = {} THEN 0
        ELSE LET k == CHOOSE x \in hits : \A y \in hits : x <= y
             IN  1 + CountFrom(s, p, k + Len(p))

Count(s, p) == CountFrom(s, p, 1)

RECURSIVE SumOver(_, _)
SumOver(S, f) ==
    IF S = {} THEN 0
    ELSE LET x == CHOOSE y \in S : TRUE IN f[x] + SumOver(S \ {x}, f)

\* s.split(sep) for a one-element separator: the pieces between separators
RECURSIVE SplitOn(_, _, _)
SplitOn(s, sep, empty) ==
    IF \A i \in 1..Len(s) : SubSeq(s, i, i) # sep THEN <<s>>
    ELSE LET k == CHOOSE i \in 1..Len(s) :
                     /\ SubSeq(s, i, i) = sep
                     /\ \A j \in 1..(i - 1) : SubSeq(s, j, j) # sep
         IN  <<IF k = 1 THEN empty ELSE SubSeq(s, 1, k - 1)>>
                 \o SplitOn(IF k = Len(s) THEN empty ELSE SubSeq(s, k + 1, Len(s)), sep, empty)

IsUpperCode(c) == c \in 65..90
IsLowerCode(c) == c \in 97..122
IsAlphaCode(c) == IsUpperCode(c) \/ IsLowerCode(c)
IsDigitCode(c) == c \in 48..57
\* \s of a Python str pattern: ASCII white space, the separators 28..31, NEL, NBSP
IsSpaceCode(c) == c \in {9, 10, 11, 12, 13, 28, 29, 30, 31, 32, 133, 160}

Digits == "0123456789"
Uppers == "ABCDEFGHIJKLMNOPQRSTUVWXYZ"
Lowers == "abcdefghijklmnopqrstuvwxyz"

IndexIn(alphabet, c) ==
    IF \E i \in 1..Len(alphabet) : Ch(alphabet, i) = c
    THEN CHOOSE i \in 1..Len(alphabet) : Ch(alphabet, i) = c
    ELSE 0

IsDigitCh(c) == IndexIn(Digits, c) > 0
IsAlphaCh(c) == IndexIn(Uppers, c) > 0 \/ IndexIn(Lowers, c) > 0
IsSpaceCh(c) == c \in {" ", "\t", "\n", "\r", "\f"}

\* str.lower()
LowerCh(c) == IF IndexIn(Uppers, c) > 0 THEN Ch(Lowers, IndexIn(Uppers, c)) ELSE c

RECURSIVE Lower(_)
Lower(s) == IF Len(s) = 0 THEN "" ELSE LowerCh(Ch(s, 1)) \o Lower(SubSeq(s, 2, Len(s)))

StartsWith(s, p) == Len(p) <= Len(s) /\ SubSeq(s, 1, Len(p)) = p
EndsWith(s, p) == Len(p) <= Len(s) /\ SubSeq(s, Len(s) - Len(p) + 1, Len(s)) = p

\* int(s) for a string of decimal digits
RECURSIVE ToInt(_)
ToInt(s) ==
    IF Len(s) = 0 THEN 0
    ELSE 10 * ToInt(SubSeq(s, 1, Len(s) - 1)) + (IndexIn(Digits, Ch(s, Len(s))) - 1)

AllDigits(s) == \A i \in 1..Len(s) : IsDigitCh(Ch(s, i))

\* the least element of a non-empty set of integers
Least(S) == CHOOSE x \in S : \A y \in S : x <= y

\* os.path.splitext(name)[1]: from the last dot of the name on (a leading dot does not count)
SplitExt(name) ==
    LET dots == {i \in 2..Len(name) : Ch(name, i) = "."}
    IN  IF dots = {} THEN ""
        ELSE LET k == CHOOSE x \in dots : \A y \in dots : y <= x
             IN  SubSeq(name, k, Len(name))

-----------------------------------------------------------------------------
(* Text validity oracle: is_valid_doc_text *)

MinValidLen == 100          \* len(text) < 100
StrangePct == 20            \* non_ascii_count / len(text) > 0.20
MaxMsPatterns == 3          \* ms_pattern_count > 3
MinDataLikeLines == 5       \* len(data_like_lines) < 5

suspicious_patterns == {Codes("@Unknown"), Codes("Times N"), <<0>>, <<125, 0, 123>>}

ms_patterns == {Codes("Microsoft Word"), Codes("Microsoft Office")}

prison_keywords ==
    {Codes("Prison"), Codes("CNA"), Codes("Capacity"), Codes("Population"),
     Codes("Report Date"), Codes("Operational")}

\* ord(char) > 127 or (ord(char) < 32 and char not in '\n\t\r')
IsStrangeCode(c) == c > 127 \/ (c < 32 /\ c \notin {10, 9, 13})

non_ascii_count(text) == Cardinality({i \in 1..Len(text) : IsStrangeCode(text[i])})

InClass(c, cls) ==
    \/ (cls = "alsp" /\ (IsAlphaCode(c) \/ IsSpaceCode(c)))
    \/ (cls = "sp" /\ IsSpaceCode(c))
    \/ (cls = "dg" /\ IsDigitCode(c))

\* length of the longest run of positions from i on whose code is in the class
RunLen(line, i, cls) ==
    CHOOSE n \in 0..(IF i > Len(line) THEN 0 ELSE Len(line) - i + 1) :
        /\ \A j \in i..(i + n - 1) : InClass(line[j], cls)
        /\ (i + n > Len(line) \/ ~InClass(line[i + n], cls))

\* re.compile(r'^[A-Za-z][A-Za-z\s]+\s+\d+\s+\d+').match(line)
\* The run [A-Za-z\s]+\s+ is the longest stretch of letters and white space after
\* the first letter: it must hold two characters at least and end in white space,
\* since the next character has to be a digit.
data_like_pattern(line) ==
    /\ Len(line) >= 1
    /\ IsAlphaCode(line[1])
    /\ LET r == RunLen(line, 2, "alsp")
           d == RunLen(line, 2 + r, "dg")
           w == RunLen(line, 2 + r + d, "sp")
       IN  /\ r >= 2
           /\ IsSpaceCode(line[1 + r])
           /\ d >= 1
           /\ w >= 1
           /\ RunLen(line, 2 + r + d + w, "dg") >= 1

data_like_lines(text) ==
    LET lines == SplitOn(text, <<10>>, <<>>)
    IN  Cardinality({i \in 1..Len(lines) : data_like_pattern(lines[i])})

\* is_valid_doc_text with the vendor-marker test off by one (>= 3 for > 3)
is_valid_doc_text_ms_off_by_one(text) ==
    IF Len(text) = 0 \/ Len(text) < MinValidLen THEN FALSE
    ELSE IF 100 * non_ascii_count(text) > StrangePct * Len(text) THEN FALSE
    ELSE IF \/ SumOver(ms_patterns, [p \in ms_patterns |-> Count(text, p)]) >= MaxMsPatterns
            \/ \E p \in suspicious_patterns : Has(text, p)
         THEN FALSE
    ELSE IF ~(\E k \in prison_keywords : Has(text, k))
            /\ data_like_lines(text) < MinDataLikeLines
         THEN FALSE
    ELSE TRUE

is_valid_doc_text(text) ==
    IF Len(text) = 0 \/ Len(text) < MinValidLen THEN FALSE
    ELSE IF 100 * non_ascii_count(text) > StrangePct * Len(text) THEN FALSE
    ELSE IF \/ SumOver(ms_patterns, [p \in ms_patterns |-> Count(text, p)]) > MaxMsPatterns
            \/ \E p \in suspicious_patterns : Has(text, p)
         THEN FALSE
    ELSE IF ~(\E k \in prison_keywords : Has(text, k))
            /\ data_like_lines(text) < MinDataLikeLines
         THEN FALSE
    ELSE TRUE

-----------------------------------------------------------------------------
(* Date resolver: extract_report_date_from_file *)

MinYear == 1        \* datetime.MINYEAR

IsLeap(y) == (y % 4 = 0 /\ y % 100 # 0) \/ y % 400 = 0

DaysInMonth(y, m) ==
    IF m = 2 THEN (IF IsLeap(y) THEN 29 ELSE 28)
    ELSE IF m \in {4, 6, 9, 11} THEN 30
    ELSE 31

\* datetime.datetime.strptime(date_str, '%d/%m/%Y').date(); Null for ValueError
strptime_dmy(date_str) ==
    LET d == ToInt(SubSeq(date_str, 1, 2))
        m == ToInt(SubSeq(date_str, 4, 5))
        y == ToInt(SubSeq(date_str, 7, 10))
    IN  IF y >= MinYear /\ m \in 1..12 /\ d >= 1 /\ d <= DaysInMonth(y, m)
        THEN Date(y, m, d)
        ELSE Null

\* \d{2}/\d{2}/\d{4} at position j of text
DatePatternAt(text, j) ==
    /\ j + 9 <= Len(text)
    /\ AllDigits(SubSeq(text, j, j + 1))
    /\ Ch(text, j + 2) = "/"
    /\ AllDigits(SubSeq(text, j + 3, j + 4))
    /\ Ch(text, j + 5) = "/"
    /\ AllDigits(SubSeq(text, j + 6, j + 9))

\* number of white-space characters of text from position j on (the greedy \s*)
SpaceRun(text, j) ==
    CHOOSE n \in 0..(IF j > Len(text) THEN 0 ELSE Len(text) - j + 1) :
        /\ \A k \in j..(j + n - 1) : IsSpaceCh(Ch(text, k))
        /\ (j + n > Len(text) \/ ~IsSpaceCh(Ch(text, j + n)))

\* the pattern r'Report Date:\s*(\d{2}/\d{2}/\d{4})' matches text at position i
ReportDateAt(text, i) ==
    /\ i + 11 <= Len(text)
    /\ SubSeq(text, i, i + 11) = "Report Date:"
    /\ DatePatternAt(text, i + 12 + SpaceRun(text, i + 12))

\* re.search(date_pattern, text).group(1): the first match's date string; Null for no match
search_report_date(text) ==
    LET hits == {i \in 1..Len(text) : ReportDateAt(text, i)}
    IN  IF hits = {} THEN Null
        ELSE LET i == Least(hits)
                 j == i + 12 + SpaceRun(text, i + 12)
             IN  Str(SubSeq(text, j, j + 9))

\* the content attempt on one recovered text: match, then strptime
content_date(text) ==
    LET date_str == search_report_date(text)
    IN  IF date_str = Null THEN Null ELSE strptime_dmy(date_str.s)

\* a resolver that reads the last page of a pdf instead of the first
scanned_text_last_page(file_extension, pages) ==
    IF file_extension \in {".rtf", ".docx", ".doc"} THEN Str(pages[1])
    ELSE IF file_extension = ".pdf" THEN (IF Len(pages) > 0 THEN Str(pages[Len(pages)]) ELSE Null)
    ELSE Null

\* the text the content attempt scans, per extension; Null when there is none
scanned_text(file_extension, pages) ==
    IF file_extension \in {".rtf", ".docx", ".doc"} THEN Str(pages[1])
    ELSE IF file_extension = ".pdf" THEN (IF Len(pages) > 0 THEN Str(pages[1]) ELSE Null)
    ELSE Null

\* the months dictionary, in its iteration order
months ==
    << [name |-> "january", num |-> 1], [name |-> "february", num |-> 2],
       [name |-> "march", num |-> 3], [name |-> "april", num |-> 4],
       [name |-> "may", num |-> 5], [name |-> "june", num |-> 6],
       [name |-> "july", num |-> 7], [name |-> "august", num |-> 8],
       [name |-> "september", num |-> 9], [name |-> "october", num |-> 10],
       [name |-> "november", num |-> 11], [name |-> "december", num |-> 12],
       [name |-> "jan", num |-> 1], [name |-> "feb", num |-> 2],
       [name |-> "mar", num |-> 3], [name |-> "apr", num |-> 4],
       [name |-> "jun", num |-> 6], [name |-> "jul", num |-> 7],
       [name |-> "aug", num |-> 8], [name |-> "sep", num |-> 9],
       [name |-> "sept", num |-> 9], [name |-> "oct", num |-> 10],
       [name |-> "nov", num |-> 11], [name |-> "dec", num |-> 12] >>

separators == <<"-", "_">>

\* re.search(r'20\d{2}', filename).group(): the first 20dd of the name; Null for none
year_match(filename) ==
    LET hits == {i \in 1..(Len(filename) - 3) :
                    /\ SubSeq(filename, i, i + 1) = "20"
                    /\ AllDigits(SubSeq(filename, i + 2, i + 3))}
    IN  IF hits = {} THEN Null
        ELSE Str(SubSeq(filename, Least(hits), Least(hits) + 3))

\* a month-length rule that forgets the 31-day months
last_day_thirty(month_num) ==
    IF month_num = 2 THEN 28 ELSE 30

\* last_day = 28 if month_num == 2 else 30 if month_num in [4, 6, 9, 11] else 31
last_day(month_num) ==
    IF month_num = 2 THEN 28 ELSE IF month_num \in {4, 6, 9, 11} THEN 30 ELSE 31

\* the three tests of one pass of the inner loop, numbered in the order they are made
arrangement_matches(filename, month_name, separator, year, k) ==
    IF k = 1 THEN
        \* re.search(f"{month_name}{separator}?{year}", filename)
        Has(filename, month_name \o separator \o year) \/ Has(filename, month_name \o year)
    ELSE IF k = 2 THEN
        \* re.search(f"{year}{separator}?{month_name}", filename)
        Has(filename, year \o separator \o month_name) \/ Has(filename, year \o month_name)
    ELSE
        \/ Has(filename, separator \o month_name \o separator)
        \/ StartsWith(filename, month_name \o separator)
        \/ EndsWith(filename, separator \o month_name)

\* the nested loops "for month ... for separator ...", flattened in execution order:
\* test number t is month (t-1) \div 6 + 1, separator ((t-1) % 6) \div 3 + 1,
\* arrangement (t-1) % 3 + 1
NumTests == Len(months) * Len(separators) * 3
test_month(t) == months[((t - 1) \div 6) + 1]
test_separator(t) == separators[(((t - 1) % 6) \div 3) + 1]
test_arrangement(t) == ((t - 1) % 3) + 1

\* lines 574-599: the date of the first test that matches; Null when none does
filename_date(filename) ==
    LET year == year_match(filename)
    IN  IF year = Null THEN Null
        ELSE LET hits == {t \in 1..NumTests :
                             arrangement_matches(filename, test_month(t).name,
                                                 test_separator(t), year.s, test_arrangement(t))}
             IN  IF hits = {} THEN Null
                 ELSE LET mo == test_month(Least(hits))
                      IN  Date(ToInt(year.s), mo.num, last_day(mo.num))

\* the loop of lines 606-612 (and 616-622): the first month whose name is in the
\* filename, with the first year of the filename
family_scan(filename) ==
    LET hits == {i \in 1..Len(months) : Has(filename, months[i].name)}
        year == year_match(filename)
    IN  IF hits = {} \/ year = Null THEN Null
        ELSE LET mo == months[Least(hits)]
             IN  Date(ToInt(year.s), mo.num, last_day(mo.num))

\* lines 604-622: the monthly-bulletin family, then the prison-pop family
family_date(filename) ==
    LET bulletin == IF Has(filename, "monthly") /\ Has(filename, "bulletin")
                    THEN family_scan(filename) ELSE Null
    IN  IF bulletin # Null THEN bulletin
        ELSE IF Has(filename, "prison-pop") \/ Has(filename, "prison_pop")
             THEN family_scan(filename)
        ELSE Null

\* the whole function, attempt after attempt
extract_report_date_from_file(file_path, pages) ==
    LET file_extension == Lower(SplitExt(file_path))
        filename == Lower(file_path)
        text == scanned_text(file_extension, pages)
        c == IF text = Null THEN Null ELSE content_date(text.s)
    IN  IF c # Null THEN c
        ELSE IF filename_date(filename) # Null THEN filename_date(filename)
        ELSE family_date(filename)


\* The spreadsheet parser's own attempts at the file name (extract_data_from_ods,
\* lines 691-740), made when the resolver finds no date

\* the months dictionary of lines 697-710, in its iteration order
ods_months ==
    << [name |-> "january", num |-> 1], [name |-> "jan", num |-> 1],
       [name |-> "february", num |-> 2], [name |-> "feb", num |-> 2],
       [name |-> "march", num |-> 3], [name |-> "mar", num |-> 3],
       [name |-> "april", num |-> 4], [name |-> "apr", num |-> 4],
       [name |-> "may", num |-> 5],
       [name |-> "june", num |-> 6], [name |-> "jun", num |-> 6],
       [name |-> "july", num |-> 7], [name |-> "jul", num |-> 7],
       [name |-> "august", num |-> 8], [name |-> "aug", num |-> 8],
       [name |-> "september", num |-> 9], [name |-> "sep", num |-> 9],
       [name |-> "sept", num |-> 9],
       [name |-> "october", num |-> 10], [name |-> "oct", num |-> 10],
       [name |-> "november", num |-> 11], [name |-> "nov", num |-> 11],
       [name |-> "december", num |-> 12], [name |-> "dec", num |-> 12] >>

\* p stands in s at position i
At(s, i, p) == i >= 1 /\ i + Len(p) - 1 <= Len(s) /\ SubSeq(s, i, i + Len(p) - 1) = p

\* the length of the run [-_\s]* of s from position j on
SepRun(s, j) ==
    CHOOSE n \in 0..(IF j > Len(s) THEN 0 ELSE Len(s) - j + 1) :
        /\ \A k \in j..(j + n - 1) : Ch(s, k) \in {"-", "_"} \/ IsSpaceCh(Ch(s, k))
        /\ (j + n > Len(s) \/ ~(Ch(s, j + n) \in {"-", "_"} \/ IsSpaceCh(Ch(s, j + n))))

FourDigitsAt(s, j) == j >= 1 /\ j + 3 <= Len(s) /\ AllDigits(SubSeq(s, j, j + 3))

\* a fallback that gives the last day of the month, as the filename scan does
end_of_month(year, month_num) == Date(ToInt(year), month_num, last_day(month_num))

\* pd.to_datetime(f"{year}-{month_num:02d}-01"): a Timestamp holds the years
\* 1678..2261 whole; outside them an exception is raised
first_of_month(year, month_num) ==
    IF ToInt(year) >= 1678 /\ ToInt(year) <= 2261
    THEN Date(ToInt(year), month_num, 1)
    ELSE [k |-> "error"]

\* line 714: (month)[-_\s]*(\d{4}), leftmost match, first alternative that matches
ods_month_year(filename) ==
    LET fits(i, k) == /\ At(filename, i, ods_months[k].name)
                      /\ FourDigitsAt(filename, i + Len(ods_months[k].name)
                                         + SepRun(filename, i + Len(ods_months[k].name)))
        hits == {i \in 1..Len(filename) : \E k \in DOMAIN ods_months : fits(i, k)}
    IN  IF hits = {} THEN Null
        ELSE LET i == Least(hits)
                 k == Least({x \in DOMAIN ods_months : fits(i, x)})
                 j == i + Len(ods_months[k].name)
                          + SepRun(filename, i + Len(ods_months[k].name))
             IN  first_of_month(SubSeq(filename, j, j + 3), ods_months[k].num)

\* line 723: (\d{4})[-_\s]*(month)
ods_year_month(filename) ==
    LET fits(i, k) == /\ FourDigitsAt(filename, i)
                      /\ At(filename, i + 4 + SepRun(filename, i + 4), ods_months[k].name)
        hits == {i \in 1..Len(filename) : \E k \in DOMAIN ods_months : fits(i, k)}
    IN  IF hits = {} THEN Null
        ELSE LET i == Least(hits)
                 k == Least({x \in DOMAIN ods_months : fits(i, x)})
             IN  first_of_month(SubSeq(filename, i, i + 3), ods_months[k].num)

\* lines 733-740: a 20dd and any month name, each anywhere in the name
ods_separate_year_month(filename) ==
    LET year == year_match(filename)
        hits == {k \in DOMAIN ods_months : Has(filename, ods_months[k].name)}
    IN  IF year = Null \/ hits = {} THEN Null
        ELSE first_of_month(year.s, ods_months[Least(hits)].num)

\* the first of the candidates that is not Null; Null when all are
FirstFound(candidates) ==
    LET found == {i \in DOMAIN candidates : candidates[i] # Null}
    IN  IF found = {} THEN Null ELSE candidates[Least(found)]

\* lines 691-740: the report date of a spreadsheet; Null when none is found
ods_report_date(file_path) ==
    FirstFound(<<extract_report_date_from_file(file_path, <<>>),
                 ods_month_year(Lower(file_path)),
                 ods_year_month(Lower(file_path)),
                 ods_separate_year_month(Lower(file_path))>>)

-----------------------------------------------------------------------------
(* The oracle's state machine: a text is assembled chunk by chunk, then judged *)

MaxChunks == 4

Filler60 == Codes("lorem ipsum dolor sit amet consectetur adipiscing elit sed \n")

\* the pieces a recovered text is assembled from
Chunks ==
    { Filler60,
      Codes("HMP Prison Name  Baseline CNA \n"),
      [i \in 1..30 |-> 233],
      Codes("Microsoft Word "),
      Codes("Microsoft Word Microsoft Office "),
      Codes("@Unknown "),
      <<0>>,
      Codes("Alpha Wing 10 20\nBeta  3 4\nGamma Hall  5 66 7\n"),
      Codes("Delta Row 1 2\nEpsilon\t8 9\n") }

ValidStart == vtext = <<>> /\ vchunks = 0 /\ vpc = "build" /\ verdict = FALSE /\ DocIdle

InitValid == ValidStart /\ DateIdle /\ CombineIdle /\ ParseIdle

AppendChunk(c) ==
    /\ vpc = "build"
    /\ vchunks < MaxChunks
    /\ vtext' = vtext \o c
    /\ vchunks' = vchunks + 1
    /\ UNCHANGED <<vpc, verdict>>
    /\ UNCHANGED <<docVars, dateVars, combineVars, parseVars>>

Validate ==
    /\ vpc = "build"
    /\ verdict' = is_valid_doc_text(vtext)
    /\ vpc' = "judged"
    /\ UNCHANGED <<vtext, vchunks>>
    /\ UNCHANGED <<docVars, dateVars, combineVars, parseVars>>

AppendAny == \E c \in Chunks : AppendChunk(c)

NextValid == AppendAny \/ Validate

SpecValid == InitValid /\ [][NextValid]_vars

-----------------------------------------------------------------------------
(* Text recovery of a legacy file: doc_to_text and convert_doc_to_docx *)

\* the order of the stages in doc_to_text (lines 205-382)
stage_order == <<"word", "ole", "antiword", "catdoc", "convert", "raw">>

\* the stages that run under 'if system == Windows' (lines 205, 350)
windows_only == {"word", "convert"}

stage_index(stage) == CHOOSE i \in DOMAIN stage_order : stage_order[i] = stage

\* the first stage from position i on that the platform runs; "returned" when the
\* function has come to its last statement
RECURSIVE stage_from(_, _)
stage_from(i, system) ==
    IF i > Len(stage_order) THEN "returned"
    ELSE IF stage_order[i] \in windows_only /\ system # "Windows" THEN stage_from(i + 1, system)
    ELSE stage_order[i]

\* an order with the two external tools exchanged
next_stage_catdoc_first(stage, system) ==
    IF stage = "ole" THEN "catdoc"
    ELSE IF stage = "catdoc" THEN "antiword"
    ELSE IF stage = "antiword" THEN stage_from(stage_index("convert"), system)
    ELSE stage_from(stage_index(stage) + 1, system)

\* the stage that follows a stage that did not return
next_stage(stage, system) == stage_from(stage_index(stage) + 1, system)

\* a test that takes any text at all
stage_accepts_any_text(text) == text # <<>>

\* lines 245, 311, 342, 357: 'if text and is_valid_doc_text(text)'
stage_accepts(text) == text # <<>> /\ is_valid_doc_text(text)

\* line 279: 'if text and len(text) > 100 and is_valid_doc_text(text)'
ole_accepts(text) == text # <<>> /\ Len(text) > 100 /\ is_valid_doc_text(text)

\* lines 380-382: the raw scan is kept when it holds one of four keywords
raw_keywords == {Codes("Prison"), Codes("CNA"), Codes("Capacity"), Codes("Population")}

raw_accepts(text) == \E k \in raw_keywords : Has(text, k)

\* [\x20-\x7E\n\r]
IsPrintableCode(c) == (c >= 32 /\ c <= 126) \/ c \in {10, 13}

\* re.sub(r'\s+', ' ', text) of a text of printable characters
RECURSIVE collapse_whitespace(_)
collapse_whitespace(text) ==
    IF text = <<>> THEN <<>>
    ELSE IF IsSpaceCode(text[1])
    THEN LET rest == {i \in DOMAIN text : ~IsSpaceCode(text[i])}
         IN  IF rest = {} THEN <<32>>
             ELSE <<32>> \o collapse_whitespace(SubSeq(text, Least(rest), Len(text)))
    ELSE LET gaps == {i \in DOMAIN text : IsSpaceCode(text[i])}
         IN  IF gaps = {} THEN text
             ELSE SubSeq(text, 1, Least(gaps) - 1)
                      \o collapse_whitespace(SubSeq(text, Least(gaps), Len(text)))

\* a stream text whose line breaks are kept
ole_text_lines_kept(word_data) == SelectSeq(word_data, IsPrintableCode)

\* lines 272-276: the printable bytes of the WordDocument stream, white space collapsed
ole_text(word_data) ==
    collapse_whitespace(SelectSeq(word_data, IsPrintableCode))

\* re.findall(b'[\x20-\x7E\n\r]{4,}', content)
RECURSIVE text_chunks(_)
text_chunks(content) ==
    IF content = <<>> THEN <<>>
    ELSE IF ~IsPrintableCode(content[1]) THEN text_chunks(Tail(content))
    ELSE LET stops == {i \in DOMAIN content : ~IsPrintableCode(content[i])}
             n == IF stops = {} THEN Len(content) ELSE Least(stops) - 1
         IN  (IF n >= 4 THEN <<SubSeq(content, 1, n)>> ELSE <<>>)
                 \o text_chunks(SubSeq(content, n + 1, Len(content)))

RECURSIVE join_chunks(_)
join_chunks(chunks) ==
    IF chunks = <<>> THEN <<>>
    ELSE IF Len(chunks) = 1 THEN chunks[1]
    ELSE chunks[1] \o <<10>> \o join_chunks(Tail(chunks))

\* lines 371-377: the printable runs of the file, joined and white space collapsed
raw_text(content) == collapse_whitespace(join_chunks(text_chunks(content)))

\* what convert_doc_to_docx makes of each way the conversion can go (lines 106-185):
\* whether the converted file is there afterwards, and the handles acquired and quit
\* ("converted_unreadable": the file is written and docx_to_text raises on it)
convert_doc_to_docx(outcome) ==
    IF outcome = "already_converted" THEN [converted |-> TRUE, acquired |-> 0, quit |-> 0]
    ELSE IF outcome \in {"import_error", "dispatch_raises"}
    THEN [converted |-> FALSE, acquired |-> 0, quit |-> 0]
    ELSE IF outcome = "setup_raises" THEN [converted |-> FALSE, acquired |-> 1, quit |-> 0]
    ELSE IF outcome = "save_raises" THEN [converted |-> FALSE, acquired |-> 1, quit |-> 1]
    ELSE [converted |-> TRUE, acquired |-> 1, quit |-> 1]

GoodText == Filler60 \o Filler60 \o Codes("HMP Prison Name  Baseline CNA \n")

\* the texts a stage can recover from a file
DocTexts ==
    { <<>>,
      GoodText,
      GoodText \o Codes("Times New Roman"),
      Codes("Prison Name  Baseline CNA"),
      Filler60 \o Filler60,
      Codes("Altcourse Wing 12 34\nBrixton Wing 12 34\nCardiff Wing 12 34\nDurham Wing 123 45\nExeter Wing 123 456\n") }

\* the bytes of a stream or of a file: the texts, and printable runs among other bytes
DocBytes ==
    DocTexts \cup
    { <<208, 207, 17, 224>> \o Codes("Times New Roman") \o <<0, 0>>
          \o Codes("Prison Name Baseline CNA") \o <<0>> \o Codes("abc") \o <<1>>,
      <<0, 1, 2>> \o GoodText \o Codes(" Operational Capacity") \o <<0>> }

\* the ways the editor automation can go: the import or the Dispatch fails, setting
\* Visible or DisplayAlerts on the new handle fails, the try block fails, or the
\* paragraphs give a text
WordOutcomes ==
    {[k |-> o, text |-> <<>>] : o \in {"import_error", "dispatch_raises", "setup_raises",
                                       "open_raises"}}
    \cup {[k |-> "text", text |-> t] : t \in DocTexts}

OleOutcomes ==
    {[k |-> o, text |-> <<>>] : o \in {"import_error", "not_ole", "no_stream", "raises"}}
    \cup {[k |-> "text", text |-> ole_text(b)] : b \in DocBytes}

ToolOutcomes ==
    {[k |-> o, text |-> <<>>] : o \in {"absent", "fails", "raises"}}
    \cup {[k |-> "text", text |-> t] : t \in DocTexts \ {<<>>}}

ConvertOutcomes ==
    {[k |-> o, text |-> <<>>] : o \in {"import_error", "dispatch_raises", "setup_raises",
                                       "save_raises"}}
    \cup {[k |-> o, text |-> t] : o \in {"already_converted", "converted"}, t \in DocTexts}
    \cup {[k |-> "converted_unreadable", text |-> <<>>]}

RawOutcomes ==
    {[k |-> "raises", text |-> <<>>]}
    \cup {[k |-> "text", text |-> raw_text(b)] : b \in DocBytes}

\* os.path.basename(path)
basename(path) ==
    LET slashes == {i \in 1..Len(path) : Ch(path, i) = "/"}
    IN  IF slashes = {} THEN path
        ELSE SubSeq(path, (CHOOSE i \in slashes : \A j \in slashes : j <= i) + 1, Len(path))

\* a path that is never taken for a temporary file
is_temp_file_never(file_path) == FALSE

\* lines 1321-1332 (and 127, 202): the name of the file starts with '~$'
is_temp_file(file_path) == StartsWith(basename(file_path), "~$")

\* lines 218-227 and 149-158: the Word automation of doc_to_text and of
\* convert_doc_to_docx opens the file named without '~$' when the path is that of
\* a temporary file and that file exists; every other stage reads the path given
opened_path(stage, call) ==
    IF stage \in {"word", "convert"} /\ is_temp_file(call.path) /\ call.sibling
    THEN "original" ELSE "given"

DocPaths == {"report.doc", "~$report.doc", "data/~$report.doc"}

\* the calls that need the text of a legacy file: the tabular parser and the date
\* scan, each with the path it was given
DocCalls ==
    {c \in [caller : {"extract_data_from_doc", "extract_report_date_from_file"},
            path : DocPaths, sibling : BOOLEAN] :
        c.sibling => is_temp_file(c.path)}

DocStart ==
    /\ tsystem \in {"Windows", "Linux"}
    /\ tcall \in DocCalls
    /\ tpc = "call"
    /\ ttrace = <<>>
    /\ tout = <<>>
    /\ tacquired = 0
    /\ tquit = 0
    /\ topened = <<>>

InitDoc ==
    /\ DocStart
    /\ vtext = <<>> /\ vchunks = 0 /\ vpc = "idle" /\ verdict = FALSE
    /\ DateIdle /\ CombineIdle /\ ParseIdle

\* a stage ends: with 'return text' when it accepted its text, and by falling
\* through to the next stage otherwise
\* lines 1345-1352 (and 542-544): extract_data_from_doc returns the empty table for
\* a temporary file before any text is recovered; otherwise, and in the date scan
\* for every path, doc_to_text is called
EnterDoc ==
    /\ tpc = "call"
    /\ tpc' = IF tcall.caller = "extract_data_from_doc" /\ is_temp_file(tcall.path)
              THEN "skipped" ELSE stage_from(1, tsystem)
    /\ UNCHANGED <<tsystem, ttrace, tout, tacquired, tquit, tcall, topened>>
    /\ UNCHANGED <<vtext, vchunks, vpc, verdict>>
    /\ UNCHANGED <<dateVars, combineVars, parseVars>>

StageEnds(stage, result, text, acquired, quit) ==
    /\ ttrace' = Append(ttrace, [stage |-> stage, result |-> result])
    /\ topened' = Append(topened, opened_path(stage, tcall))
    /\ tacquired' = tacquired + acquired
    /\ tquit' = tquit + quit
    /\ IF result = "accepted"
       THEN tpc' = "returned" /\ tout' = text
       ELSE tpc' = next_stage(stage, tsystem) /\ tout' = <<>>
    /\ UNCHANGED <<tsystem, tcall, vtext, vchunks, vpc, verdict>>
    /\ UNCHANGED <<dateVars, combineVars, parseVars>>

\* lines 205-258: Word automation
WordStage ==
    /\ tpc = "word"
    /\ \E o \in WordOutcomes :
          IF o.k \in {"import_error", "dispatch_raises"}
          THEN StageEnds("word", "error", <<>>, 0, 0)
          ELSE IF o.k = "setup_raises" THEN StageEnds("word", "error", <<>>, 1, 0)
          ELSE IF o.k = "open_raises" THEN StageEnds("word", "error", <<>>, 1, 1)
          ELSE IF stage_accepts(o.text) THEN StageEnds("word", "accepted", o.text, 1, 1)
          ELSE StageEnds("word", IF o.text = <<>> THEN "none" ELSE "rejected", <<>>, 1, 1)

\* lines 261-285: the WordDocument stream of the OLE container
OleStage ==
    /\ tpc = "ole"
    /\ \E o \in OleOutcomes :
          IF o.k \in {"import_error", "raises"} THEN StageEnds("ole", "error", <<>>, 0, 0)
          ELSE IF o.k \in {"not_ole", "no_stream"} THEN StageEnds("ole", "none", <<>>, 0, 0)
          ELSE IF ole_accepts(o.text) THEN StageEnds("ole", "accepted", o.text, 0, 0)
          ELSE StageEnds("ole", IF o.text = <<>> THEN "none" ELSE "rejected", <<>>, 0, 0)

\* lines 288-347: an external tool, when it is installed
ToolStage(tool) ==
    /\ tpc = tool
    /\ \E o \in ToolOutcomes :
          IF o.k = "raises" THEN StageEnds(tool, "error", <<>>, 0, 0)
          ELSE IF o.k \in {"absent", "fails"} THEN StageEnds(tool, "none", <<>>, 0, 0)
          ELSE IF stage_accepts(o.text) THEN StageEnds(tool, "accepted", o.text, 0, 0)
          ELSE StageEnds(tool, "rejected", <<>>, 0, 0)

AntiwordStage == ToolStage("antiword")

CatdocStage == ToolStage("catdoc")

\* lines 350-361: conversion to docx and the text of the converted file
ConvertStage ==
    /\ tpc = "convert"
    /\ \E o \in ConvertOutcomes :
          LET c == convert_doc_to_docx(o.k)
          IN  IF ~c.converted THEN StageEnds("convert", "error", <<>>, c.acquired, c.quit)
              ELSE IF o.k = "converted_unreadable"
              THEN StageEnds("convert", "error", <<>>, c.acquired, c.quit)
              ELSE IF stage_accepts(o.text)
              THEN StageEnds("convert", "accepted", o.text, c.acquired, c.quit)
              ELSE StageEnds("convert", IF o.text = <<>> THEN "none" ELSE "rejected", <<>>,
                             c.acquired, c.quit)

\* lines 364-388: the printable runs of the file's bytes, then 'return ""'
RawStage ==
    /\ tpc = "raw"
    /\ \E o \in RawOutcomes :
          IF o.k = "raises" THEN StageEnds("raw", "error", <<>>, 0, 0)
          ELSE IF o.text # <<>> /\ raw_accepts(o.text)
          THEN StageEnds("raw", "accepted", o.text, 0, 0)
          ELSE StageEnds("raw", IF o.text = <<>> THEN "none" ELSE "rejected", <<>>, 0, 0)

NextDoc ==
    \/ EnterDoc
    \/ WordStage
    \/ OleStage
    \/ AntiwordStage
    \/ CatdocStage
    \/ ConvertStage
    \/ RawStage

SpecDoc == InitDoc /\ [][NextDoc]_vars

-----------------------------------------------------------------------------
(* The date resolver's state machine: one action per attempt *)

MaxPages == 2

DateStems ==
    { "prison-pop-august-2022",
      "Monthly_Bulletin_february_2023",
      "Population bulletin august 2022",
      "2021-sept-figures",
      "summary_may_v2_2022",
      "report",
      "2019_archive_june-2020",
      "prison_pop_2022q3_summary",
      "Feb2024",
      "may_review_august-2022" }

DateExts == {".rtf", ".pdf", ".docx", ".doc", ".ods", ".PDF"}

ContentTexts ==
    { "Prison Name  Baseline CNA",
      "Population Bulletin\nReport Date: 15/03/2023\nPrison Name",
      "Report Date:29/02/2024",
      "Report Date: 31/02/2023\nReport Date: 15/03/2023",
      "Report Date: 5/3/2023",
      "Report Date: \t01/12/2021 Page 1" }

\* sequences over S of length 0..n
RECURSIVE SeqsUpTo(_, _)
SeqsUpTo(S, n) ==
    IF n = 0 THEN {<<>>}
    ELSE LET shorter == SeqsUpTo(S, n - 1)
         IN  shorter \cup {Append(q, x) : q \in {r \in shorter : Len(r) = n - 1}, x \in S}

\* the recovered contents a file of the extension can have
ContentsOf(ext) ==
    IF Lower(ext) = ".pdf" THEN SeqsUpTo(ContentTexts, MaxPages)
    ELSE IF Lower(ext) = ".ods" THEN {<<>>}
    ELSE {<<t>> : t \in ContentTexts}

DateStart ==
    /\ \E stem \in DateStems, ext \in DateExts :
          /\ dname = stem \o ext
          /\ dpages \in ContentsOf(ext)
    /\ dpc = "content"
    /\ dres = Null
    /\ dsrc = "none"

\* lines 497-554: the content attempt
ScanContent ==
    /\ dpc = "content"
    /\ LET text == scanned_text(Lower(SplitExt(dname)), dpages)
           c == IF text = Null THEN Null ELSE content_date(text.s)
       IN  IF c # Null
           THEN dres' = c /\ dsrc' = "content" /\ dpc' = "done"
           ELSE dpc' = "filename" /\ UNCHANGED <<dres, dsrc>>
    /\ UNCHANGED <<dname, dpages>>
    /\ UNCHANGED <<validVars, combineVars, parseVars>>

\* lines 574-599: the arrangements of month and year in the file name
ScanFilename ==
    /\ dpc = "filename"
    /\ LET f == filename_date(Lower(dname))
       IN  IF f # Null
           THEN dres' = f /\ dsrc' = "filename" /\ dpc' = "done"
           ELSE dpc' = "families" /\ UNCHANGED <<dres, dsrc>>
    /\ UNCHANGED <<dname, dpages>>
    /\ UNCHANGED <<validVars, combineVars, parseVars>>

\* lines 604-625: the file-name families, then "return None"
ScanFamilies ==
    /\ dpc = "families"
    /\ LET f == family_date(Lower(dname))
       IN  /\ dres' = f
           /\ dsrc' = IF f # Null THEN "family" ELSE "none"
    /\ dpc' = "done"
    /\ UNCHANGED <<dname, dpages>>
    /\ UNCHANGED <<validVars, combineVars, parseVars>>

InitDate == DateStart /\ ValidIdle /\ CombineIdle /\ ParseIdle

NextDate == ScanContent \/ ScanFilename \/ ScanFamilies

SpecDate == InitDate /\ [][NextDate]_vars


-----------------------------------------------------------------------------
(* Tables: pandas DataFrames and the pandas operations the combiner applies *)

\* the number m / 10^e, with no trailing zero among its e decimals
Num(m, e) == [k |-> "num", m |-> m, e |-> e]

\* a DataFrame: its columns in order, and its rows, each a function from column to value
Table(cols, rows) == [cols |-> cols, rows |-> rows]

\* pd.DataFrame()
EmptyTable == Table(<<>>, <<>>)

Range(f) == {f[i] : i \in DOMAIN f}

\* df.empty: some axis has length 0
df_is_empty_header_blind(df) == Len(df.cols) = 0

df_is_empty(df) == Len(df.cols) = 0 \/ Len(df.rows) = 0

\* df[col] = v
set_column(df, col, v) ==
    Table(IF col \in Range(df.cols) THEN df.cols ELSE Append(df.cols, col),
          [i \in DOMAIN df.rows |->
              [c \in (DOMAIN df.rows[i]) \cup {col} |-> IF c = col THEN v ELSE df.rows[i][c]]])

\* str.upper()
UpperCh(c) == IF IndexIn(Lowers, c) > 0 THEN Ch(Uppers, IndexIn(Lowers, c)) ELSE c

RECURSIVE Upper(_)
Upper(s) == IF Len(s) = 0 THEN "" ELSE UpperCh(Ch(s, 1)) \o Upper(SubSeq(s, 2, Len(s)))

\* a < b for Python strings: by code point, a proper prefix first
StrLt(a, b) ==
    \E i \in 1..(Len(a) + 1) :
        /\ i <= Len(b) + 1
        /\ SubSeq(a, 1, i - 1) = SubSeq(b, 1, i - 1)
        /\ \/ i = Len(a) + 1 /\ i <= Len(b)
           \/ i <= Len(a) /\ i <= Len(b) /\ Ord(Ch(a, i)) < Ord(Ch(b, i))

\* the order of the values of one sort key; x and y are not null
ValueLt(x, y) ==
    IF x.k = "date" /\ y.k = "date"
    THEN (x.y * 10000 + x.m * 100 + x.d) < (y.y * 10000 + y.m * 100 + y.d)
    ELSE IF x.k = "str" /\ y.k = "str" THEN StrLt(x.s, y.s)
    ELSE FALSE

\* na_position='last'
KeyLt(x, y) ==
    IF x = Null THEN FALSE
    ELSE IF y = Null THEN TRUE
    ELSE ValueLt(x, y)

\* row a sorts strictly before row b under sort_values(['Report_Date', 'Prison Name'])
RowLt(a, b) ==
    \/ KeyLt(a["Report_Date"], b["Report_Date"])
    \/ /\ ~KeyLt(b["Report_Date"], a["Report_Date"])
       /\ KeyLt(a["Prison Name"], b["Prison Name"])

\* sort_values on two keys is a stable sort: x goes after every row not greater than it
InsertRow(sorted, x) ==
    LET later == {i \in DOMAIN sorted : RowLt(x, sorted[i])}
        at == IF later = {} THEN Len(sorted) + 1 ELSE Least(later)
    IN  SubSeq(sorted, 1, at - 1) \o <<x>> \o SubSeq(sorted, at, Len(sorted))

\* a sort on the report date alone
RECURSIVE sort_values_by_date(_)
sort_values_by_date(rows) ==
    IF Len(rows) = 0 THEN <<>>
    ELSE LET sorted == sort_values_by_date(SubSeq(rows, 1, Len(rows) - 1))
             x == rows[Len(rows)]
             later == {i \in DOMAIN sorted : KeyLt(x["Report_Date"], sorted[i]["Report_Date"])}
             at == IF later = {} THEN Len(sorted) + 1 ELSE Least(later)
         IN  SubSeq(sorted, 1, at - 1) \o <<x>> \o SubSeq(sorted, at, Len(sorted))

RECURSIVE sort_values(_)
sort_values(rows) ==
    IF Len(rows) = 0 THEN <<>>
    ELSE InsertRow(sort_values(SubSeq(rows, 1, Len(rows) - 1)), rows[Len(rows)])

\* drop_duplicates(): the first of equal rows stays
RECURSIVE drop_duplicates(_)
drop_duplicates(rows) ==
    IF Len(rows) = 0 THEN <<>>
    ELSE LET init == SubSeq(rows, 1, Len(rows) - 1)
             last == rows[Len(rows)]
         IN  IF last \in Range(init) THEN drop_duplicates(init)
             ELSE Append(drop_duplicates(init), last)

\* pd.to_numeric(errors='coerce') of a value the parsers have already coerced
to_numeric_value(v) == IF v.k = "num" THEN v ELSE Null

\* the days a nanosecond Timestamp represents: 1677-09-22 .. 2262-04-11
in_timestamp_range(v) ==
    /\ v.y * 10000 + v.m * 100 + v.d >= 16770922
    /\ v.y * 10000 + v.m * 100 + v.d <= 22620411

\* pd.to_datetime(errors='coerce') of a date value: NaT for a day out of the range
to_datetime_value(v) == IF v.k = "date" /\ in_timestamp_range(v) THEN v ELSE Null

\* Path(name).stem
Stem(name) ==
    LET ext == SplitExt(name)
    IN  SubSeq(name, 1, Len(name) - Len(ext))

-----------------------------------------------------------------------------
(* The corpus combiner: combine_prison_data *)

MaxFiles == 3

extensions == <<".ods", ".rtf", ".pdf", ".doc", ".docx">>

columns_to_remove == {"% Pop to In Use CNA", "% Accommodation Available"}

numeric_cols == {"Baseline CNA", "In Use CNA", "Operational Capacity", "Population *"}

\* what a parser call can hand to the combiner
Raises == [k |-> "raise"]
Returns(df) == [k |-> "df", df |-> df]

TableA ==
    Table(<<"Prison Name", "Baseline CNA", "Population *">>,
          << [c \in {"Prison Name", "Baseline CNA", "Population *"} |->
                 IF c = "Prison Name" THEN Str("Brixton")
                 ELSE IF c = "Baseline CNA" THEN Num(798, 0) ELSE Num(1234, 0)],
             [c \in {"Prison Name", "Baseline CNA", "Population *"} |->
                 IF c = "Prison Name" THEN Str("Altcourse")
                 ELSE IF c = "Baseline CNA" THEN Null ELSE Num(1033, 0)] >>)

TableB ==
    Table(<<"Prison Name", "Baseline CNA", "% Pop to In Use CNA">>,
          << [c \in {"Prison Name", "Baseline CNA", "% Pop to In Use CNA"} |->
                 IF c = "Prison Name" THEN Str("Cardiff")
                 ELSE IF c = "Baseline CNA" THEN Num(539, 0) ELSE Num(1375, 1)] >>)

TableC ==
    Table(<<"Prison Name", "In Use CNA">>,
          << [c \in {"Prison Name", "In Use CNA"} |->
                 IF c = "Prison Name" THEN Str("Durham") ELSE Num(561, 0)] >>)

TableNoName ==
    Table(<<"Establishment", "Baseline CNA">>,
          << [c \in {"Establishment", "Baseline CNA"} |->
                 IF c = "Establishment" THEN Str("Exeter") ELSE Num(326, 0)] >>)

TableHeaderOnly == Table(<<"Prison Name", "Baseline CNA">>, <<>>)

\* the files a corpus is drawn from: name, whether it lies in a subdirectory, the
\* text the date scan recovers, the modification date, and what the tabular stage
\* of the file's parser makes of it (before the parser's own date stage)
FileSamples ==
    << [name |-> "prison-pop-august-2022.ods", sub |-> FALSE, pages |-> <<>>,
        mtime |-> Date(2024, 1, 5), body |-> Returns(TableA)],
       [name |-> "prison-pop-august-2022.ods", sub |-> TRUE, pages |-> <<>>,
        mtime |-> Date(2024, 1, 6), body |-> Returns(TableA)],
       [name |-> "report.rtf", sub |-> FALSE, pages |-> <<"Prison Name  Baseline CNA">>,
        mtime |-> Date(2021, 7, 9), body |-> Returns(TableB)],
       [name |-> "broken.pdf", sub |-> FALSE, pages |-> <<>>,
        mtime |-> Date(2024, 1, 7), body |-> Raises],
       [name |-> "empty.docx", sub |-> TRUE, pages |-> <<"">>,
        mtime |-> Date(2024, 1, 8), body |-> Returns(EmptyTable)],
       [name |-> "report.doc", sub |-> FALSE, pages |-> <<"Establishment  Baseline CNA">>,
        mtime |-> Date(2024, 1, 9), body |-> Returns(TableNoName)],
       [name |-> "Feb2024.PDF", sub |-> FALSE, pages |-> <<"Report Date: 15/03/1500">>,
        mtime |-> Date(2024, 3, 1), body |-> Returns(TableC)],
       [name |-> "header.rtf", sub |-> FALSE, pages |-> <<"Prison Name  Baseline CNA">>,
        mtime |-> Date(2024, 1, 10), body |-> Returns(TableHeaderOnly)],
       [name |-> "mixed_2022_may.Pdf", sub |-> FALSE, pages |-> <<"Prison Name">>,
        mtime |-> Date(2024, 1, 11), body |-> Returns(TableC)],
       [name |-> "report.ods", sub |-> FALSE, pages |-> <<>>,
        mtime |-> Date(2024, 1, 12), body |-> Returns(TableC)],
       [name |-> "2022 aug.ods", sub |-> FALSE, pages |-> <<>>,
        mtime |-> Date(2024, 1, 13), body |-> Returns(TableC)] >>

\* str(file_path)
PathOf(e) == IF e.sub THEN "sub/" \o e.name ELSE e.name

\* the date stage every parser ends with: the Report_Date column is set when the
\* resolver finds a date
with_report_date(df, e) ==
    LET report_date == extract_report_date_from_file(e.name, e.pages)
    IN  IF report_date # Null THEN set_column(df, "Report_Date", report_date) ELSE df

\* the date stage of the spreadsheet parser (lines 691-749): the resolver, then the
\* parser's own attempts; without a date the parser returns the empty table
ods_dated(df, report_date) ==
    IF report_date = Null \/ report_date.k = "error"
    THEN EmptyTable
    ELSE set_column(df, "Report_Date", report_date)

with_report_date_ods(df, e) == ods_dated(df, ods_report_date(e.name))

\* extract_data_from_<format>(str(file_path), str(output_dir)) as the combiner sees it
parser_result(e) ==
    IF e.body = Raises THEN Raises
    ELSE IF df_is_empty(e.body.df) THEN e.body
    ELSE IF Lower(SplitExt(e.name)) = ".ods" THEN Returns(with_report_date_ods(e.body.df, e))
    ELSE Returns(with_report_date(e.body.df, e))

\* directory.glob('*' + pattern): the file system decides whether case matters
glob_matches(name, pattern, case_insensitive) ==
    IF case_insensitive THEN EndsWith(Lower(name), Lower(pattern))
    ELSE EndsWith(name, pattern)

\* the globs in the order they are made: root then subdirectory; per extension the
\* lower-case pattern, then the upper-case one
NumGlobs == 2 * Len(extensions) * 2
glob_sub(g) == (g - 1) \div (2 * Len(extensions)) = 1
glob_pattern(g) ==
    LET ext == extensions[(((g - 1) % (2 * Len(extensions))) \div 2) + 1]
    IN  IF (g - 1) % 2 = 0 THEN ext ELSE Upper(ext)

glob(dir, g, case_insensitive) ==
    SelectSeq(dir, LAMBDA e : e.sub = glob_sub(g)
                              /\ glob_matches(e.name, glob_pattern(g), case_insensitive))

\* lines 149-157: the list "files"
RECURSIVE enumerate_from(_, _, _)
enumerate_from(dir, g, case_insensitive) ==
    IF g > NumGlobs THEN <<>>
    ELSE glob(dir, g, case_insensitive) \o enumerate_from(dir, g + 1, case_insensitive)

enumerate_files(dir, case_insensitive) == enumerate_from(dir, 1, case_insensitive)

\* line 189: the table is worth accumulating
is_valid_prison_table(df) == ~df_is_empty(df) /\ "Prison Name" \in Range(df.cols)

\* a fill that stamps the day of the run where the resolver finds nothing
fill_report_date_with_today(df, e) ==
    IF "Report_Date" \in Range(df.cols) THEN df
    ELSE LET report_date == extract_report_date_from_file(e.name, e.pages)
         IN  set_column(df, "Report_Date",
                        IF report_date # Null THEN report_date ELSE Date(2026, 11, 5))

\* lines 194-202: the Report_Date column is filled in when the parser left it out
fill_report_date(df, e) ==
    IF "Report_Date" \in Range(df.cols) THEN df
    ELSE LET report_date == extract_report_date_from_file(e.name, e.pages)
         IN  set_column(df, "Report_Date", IF report_date # Null THEN report_date ELSE e.mtime)

\* a combiner that keeps only the table of the file at hand
accumulate_latest_only(acc, df) == <<df>>

\* line 213: dfs.append(df)
accumulate(acc, df) == Append(acc, df)

\* line 227
standard_columns(cols) == cols \ columns_to_remove

\* a standardisation that fills the missing columns with zero
standardize_zero_filled(df, std) ==
    [i \in DOMAIN df.rows |->
        [c \in std |-> IF c \in DOMAIN df.rows[i] THEN df.rows[i][c] ELSE Num(0, 0)]]

\* lines 231-242: one table brought to the standard columns
standardize(df, std) ==
    [i \in DOMAIN df.rows |->
        [c \in std |-> IF c \in DOMAIN df.rows[i] THEN df.rows[i][c] ELSE Null]]

\* line 245: pd.concat
RECURSIVE concat(_, _)
concat(tables, std) ==
    IF Len(tables) = 0 THEN <<>>
    ELSE standardize(tables[1], std) \o concat(SubSeq(tables, 2, Len(tables)), std)

\* lines 248-249: 'Population' becomes 'Population *' when only the former exists
renamed(c, cols) ==
    IF c = "Population" /\ "Population *" \notin cols THEN "Population *" ELSE c

rename_population(rows, cols) ==
    [i \in DOMAIN rows |->
        [c \in {renamed(x, cols) : x \in cols} |->
            IF c \in cols /\ renamed(c, cols) = c THEN rows[i][c] ELSE rows[i]["Population"]]]

\* lines 253-260: numeric columns and the date column are coerced
coerce_row(r) ==
    [c \in DOMAIN r |->
        IF c \in numeric_cols THEN to_numeric_value(r[c])
        ELSE IF c = "Report_Date" THEN to_datetime_value(r[c])
        ELSE r[c]]

\* lines 223-269: the combined table of the accumulated tables
combine_tables(tables, cols) ==
    LET std == standard_columns(cols)
        rows == rename_population(concat(tables, std), std)
        typed == [i \in DOMAIN rows |-> coerce_row(rows[i])]
    IN  [cols |-> {renamed(x, std) : x \in std},
         rows |-> drop_duplicates(sort_values(typed))]

\* the states the output directory Output/Monthly_reports_processed can be in when
\* the run starts: present, absent under an existing Output, absent with Output
\* absent too, a regular file under that name, present but not writable
OutputStates == {"exists", "absent", "missing_parent", "is_file", "read_only"}

\* the subsequences of s with at most n elements
RECURSIVE SubSeqsUpTo(_, _)
SubSeqsUpTo(s, n) ==
    IF Len(s) = 0 THEN {<<>>}
    ELSE LET rest == SubSeqsUpTo(SubSeq(s, 2, Len(s)), n)
         IN  rest \cup {<<s[1]>> \o r : r \in {q \in rest : Len(q) < n}}

CombineStart ==
    /\ cdir \in SubSeqsUpTo(FileSamples, MaxFiles)
    /\ cenv \in [out : OutputStates, case_insensitive : BOOLEAN]
    /\ cpc = "start"
    /\ cidx = 0
    /\ cfiles = <<>>
    /\ processed_files = {}
    /\ dfs = <<>>
    /\ all_columns = {}
    /\ combined = Null
    /\ cwrites = <<>>
    /\ cerr = "none"
    /\ ProcessIdle

InitCombine == CombineStart /\ ValidIdle /\ DateIdle /\ ParseIdle

\* lines 140-159: the output directory is made, the files are listed
ListFiles ==
    /\ cpc = "start"
    /\ IF cenv.out = "missing_parent"
       THEN cpc' = "raised" /\ cerr' = "FileNotFoundError" /\ UNCHANGED <<cfiles, cidx>>
       ELSE IF cenv.out = "is_file"
       THEN cpc' = "raised" /\ cerr' = "FileExistsError" /\ UNCHANGED <<cfiles, cidx>>
       ELSE /\ cfiles' = enumerate_files(cdir, cenv.case_insensitive)
            /\ cidx' = 1
            /\ cpc' = "loop"
            /\ UNCHANGED cerr
    /\ UNCHANGED <<cdir, cenv, processed_files, dfs, all_columns, combined, cwrites>>
    /\ UNCHANGED <<validVars, dateVars, parseVars, processVars>>

\* save_to_csv as called by a parser: <stem>.csv is written when the table is not
\* empty and the directory takes the file
saved(writes, e, df) ==
    IF ~df_is_empty(df) /\ cenv.out # "read_only"
    THEN Append(writes, [file |-> Stem(e.name) \o ".csv", from |-> PathOf(e)])
    ELSE writes

\* a loop that keeps no record of the paths it has handled
never_processed(path, processed) == FALSE

\* line 168: str(file_path) in processed_files
already_processed(path, processed) == path \in processed

\* lines 165-218: one pass of the loop over files
ProcessFile ==
    /\ cpc = "loop"
    /\ cidx <= Len(cfiles)
    /\ LET e == cfiles[cidx]
           res == parser_result(e)
       IN  IF already_processed(PathOf(e), processed_files)
           THEN UNCHANGED <<processed_files, dfs, all_columns, cwrites>>
           ELSE /\ processed_files' = processed_files \cup {PathOf(e)}
                /\ IF Lower(SplitExt(e.name)) \notin Range(extensions)
                   THEN UNCHANGED <<dfs, all_columns, cwrites>>
                   ELSE IF res = Raises
                   THEN UNCHANGED <<dfs, all_columns, cwrites>>
                   ELSE /\ cwrites' = saved(cwrites, e, res.df)
                        /\ IF ~is_valid_prison_table(res.df)
                           THEN UNCHANGED <<dfs, all_columns>>
                           ELSE LET df == fill_report_date(res.df, e)
                                IN  /\ all_columns' = all_columns \cup Range(df.cols)
                                    /\ dfs' = accumulate(dfs, df)
    /\ cidx' = cidx + 1
    /\ UNCHANGED <<cdir, cenv, cpc, cfiles, combined, cerr>>
    /\ UNCHANGED <<validVars, dateVars, parseVars, processVars>>

\* lines 220-281: the accumulated tables are combined, saved and returned
Aggregate ==
    /\ cpc = "loop"
    /\ cidx > Len(cfiles)
    /\ IF dfs = <<>>
       THEN cpc' = "raised" /\ cerr' = "ValueError" /\ UNCHANGED <<combined, cwrites>>
       ELSE IF cenv.out = "read_only"
       THEN cpc' = "raised" /\ cerr' = "PermissionError" /\ UNCHANGED <<combined, cwrites>>
       ELSE /\ combined' = combine_tables(dfs, all_columns)
            /\ cwrites' = Append(cwrites, [file |-> "combined_prison_data.csv",
                                           from |-> "combined"])
            /\ cpc' = "returned"
            /\ UNCHANGED cerr
    /\ UNCHANGED <<cdir, cenv, cidx, cfiles, processed_files, dfs, all_columns>>
    /\ UNCHANGED <<validVars, dateVars, parseVars, processVars>>

NextCombine == ListFiles \/ ProcessFile \/ Aggregate

SpecCombine == InitCombine /\ [][NextCombine]_vars

-----------------------------------------------------------------------------
(* One file on its own: process_prison_file and extract_prison_data *)

\* the parameters of every format parser, none with a default: file_path and
\* output_path (lines 628, 789, 966, 1143, 1335 of file_scraping_functions.py)
ParserParameters == 2

\* the parameters of save_to_csv, none with a default: df, original_file_path and
\* output_dir_path (line 454 of file_scraping_functions.py)
SaveParameters == 3

\* a call with positional arguments: it binds when every parameter gets its
\* argument and no argument is left over; otherwise TypeError is raised
call_binds(parameters, arguments) == arguments = parameters

\* lines 107-126: the parser of the lower-cased extension is called with the path
\* alone; whatever is raised inside the try gives the empty table
extract_prison_data(e) ==
    LET file_extension == Lower(SplitExt(e.name))
    IN  IF file_extension \notin Range(extensions) THEN Returns(EmptyTable)
        ELSE IF ~call_binds(ParserParameters, 1) THEN Returns(EmptyTable)
        ELSE IF parser_result(e) = Raises THEN Returns(EmptyTable)
        ELSE parser_result(e)

\* lines 57-69: the rows before the first whose name contains 'total'
before_total(df) ==
    LET totals == {i \in DOMAIN df.rows :
                      /\ df.rows[i]["Prison Name"] # Null
                      /\ Has(Lower(df.rows[i]["Prison Name"].s), "total")}
    IN  IF "Prison Name" \notin Range(df.cols) \/ totals = {} THEN df
        ELSE Table(df.cols, SubSeq(df.rows, 1, Least(totals) - 1))

\* lines 82-83: pd.to_datetime(df['Report_Date'], errors='coerce')
dates_coerced(df) ==
    Table(df.cols, [i \in DOMAIN df.rows |->
                       [df.rows[i] EXCEPT !["Report_Date"] = to_datetime_value(@)]])

\* lines 41-93: process_prison_file from the table of extract_prison_data on; the
\* call save_to_csv(df, file_path) of line 86 is inside the try, whose handler
\* returns the empty table
process_prison_file(e, df) ==
    IF df_is_empty(df) THEN EmptyTable
    ELSE IF ~call_binds(SaveParameters, 2) THEN EmptyTable
    ELSE dates_coerced(before_total(fill_report_date(df, e)))

ProcessNames ==
    { "prison-pop-august-2022.ods", "prison-pop-august-2022.ODS", "report.rtf", "REPORT.RTF",
      "Feb2024.PDF", "may_2022.pdf", "june_2021.docx", "report.doc",
      "notes.txt", "README", "data.csv", "archive.xlsx" }

\* the files: a name and what the tabular stage of the parser of its format would
\* make of the file
ProcessInputs ==
    [name : ProcessNames, sub : {FALSE}, pages : {<<"Prison Name  Baseline CNA">>},
     mtime : {Date(2024, 1, 5)},
     body : {Returns(TableA), Returns(TableB), Returns(TableC), Returns(EmptyTable), Raises}]

ProcessStart ==
    /\ xfile \in ProcessInputs
    /\ xpc = "extract"
    /\ xdf = Null
    /\ xout = Null

InitProcess == ProcessStart /\ CombinerIdle /\ ValidIdle /\ DateIdle /\ ParseIdle

\* line 38: df = extract_prison_data(file_path)
ExtractPrisonData ==
    /\ xpc = "extract"
    /\ xdf' = extract_prison_data(xfile)
    /\ xpc' = "process"
    /\ UNCHANGED <<xfile, xout>>
    /\ UNCHANGED <<cdir, cenv, cpc, cidx, cfiles, processed_files, dfs, all_columns,
                   combined, cwrites, cerr>>
    /\ UNCHANGED <<validVars, dateVars, parseVars>>

\* lines 40-93: the rest of process_prison_file
ProcessPrisonFile ==
    /\ xpc = "process"
    /\ xout' = Returns(process_prison_file(xfile, xdf.df))
    /\ xpc' = "done"
    /\ UNCHANGED <<xfile, xdf>>
    /\ UNCHANGED <<cdir, cenv, cpc, cidx, cfiles, processed_files, dfs, all_columns,
                   combined, cwrites, cerr>>
    /\ UNCHANGED <<validVars, dateVars, parseVars>>

NextProcess == ExtractPrisonData \/ ProcessPrisonFile

SpecProcess == InitProcess /\ [][NextProcess]_vars

-----------------------------------------------------------------------------
(* Lines, tokens and numbers: the string operations of the tabular parsers *)

\* the greatest element of a non-empty set of integers
Greatest(S) == CHOOSE x \in S : \A y \in S : y <= x

\* str.strip()
Strip(s) ==
    LET inked == {i \in 1..Len(s) : ~IsSpaceCh(Ch(s, i))}
    IN  IF inked = {} THEN "" ELSE SubSeq(s, Least(inked), Greatest(inked))

\* str.split(): the white-space separated parts
RECURSIVE Split(_)
Split(s) ==
    LET inked == {i \in 1..Len(s) : ~IsSpaceCh(Ch(s, i))}
    IN  IF inked = {} THEN <<>>
        ELSE LET b == Least(inked)
                 gaps == {i \in b..Len(s) : IsSpaceCh(Ch(s, i))}
                 e == IF gaps = {} THEN Len(s) + 1 ELSE Least(gaps)
             IN  <<SubSeq(s, b, e - 1)>>
                     \o (IF e > Len(s) THEN <<>> ELSE Split(SubSeq(s, e, Len(s))))

\* re.split(r'\s{2,}', s)
RECURSIVE SplitRuns(_)
SplitRuns(s) ==
    LET runs == {i \in 1..(Len(s) - 1) : IsSpaceCh(Ch(s, i)) /\ IsSpaceCh(Ch(s, i + 1))}
    IN  IF runs = {} THEN <<s>>
        ELSE LET b == Least(runs)
                 e == b + SpaceRun(s, b)
             IN  <<SubSeq(s, 1, b - 1)>>
                     \o SplitRuns(IF e > Len(s) THEN "" ELSE SubSeq(s, e, Len(s)))

\* ' '.join(parts)
RECURSIVE JoinSp(_)
JoinSp(parts) ==
    IF Len(parts) = 0 THEN ""
    ELSE IF Len(parts) = 1 THEN parts[1]
    ELSE parts[1] \o " " \o JoinSp(Tail(parts))

\* s.replace(c, '') for a one-character c
RECURSIVE Without(_, _)
Without(s, c) ==
    LET hits == {i \in 1..Len(s) : Ch(s, i) = c}
    IN  IF hits = {} THEN s
        ELSE SubSeq(s, 1, Least(hits) - 1)
                 \o (IF Least(hits) = Len(s) THEN ""
                     ELSE Without(SubSeq(s, Least(hits) + 1, Len(s)), c))

\* str.isdigit() / re.match(r'^\d+$', s)
IsDigitString(s) == Len(s) > 0 /\ AllDigits(s)

\* re.match(r'^[A-Za-z]', s)
StartsWithLetter(s) == Len(s) > 0 /\ IsAlphaCh(Ch(s, 1))

\* re.match(r'^\d', s)
StartsWithDigit(s) == Len(s) > 0 /\ IsDigitCh(Ch(s, 1))

\* any(c.isalpha() for c in s)
HasLetter(s) == \E i \in 1..Len(s) : IsAlphaCh(Ch(s, i))

\* m / 10^e without the trailing zeros of its decimals
RECURSIVE Normal(_, _)
Normal(m, e) == IF e > 0 /\ m % 10 = 0 THEN Normal(m \div 10, e - 1) ELSE Num(m, e)

\* a decimal numeral: optional sign, digits, at most one point, at least one digit;
\* the number it writes, Null for any other string (the numerals the reports use;
\* exponents, "inf" and "nan" spellings are not among them)
parse_decimal(s) ==
    LET t == Strip(s)
        body == IF Len(t) > 0 /\ Ch(t, 1) \in {"-", "+"} THEN SubSeq(t, 2, Len(t)) ELSE t
        points == {i \in 1..Len(body) : Ch(body, i) = "."}
        digits == Without(body, ".")
    IN  IF Cardinality(points) <= 1 /\ IsDigitString(digits)
        THEN LET e == IF points = {} THEN 0 ELSE Len(body) - Least(points)
                 m == ToInt(digits)
             IN  Normal(IF Ch(t, 1) = "-" THEN 0 - m ELSE m, e)
        ELSE Null

\* a cell of a parsed row is Null (None) or Str(s); str(cell) is 'None' for None
cell_str(cell) == IF cell = Null THEN "None" ELSE cell.s

\* a cleaning step that strips '%' only
clean_numeric_keeping_commas(cell) == parse_decimal(Without(cell_str(cell), "%"))

\* lines 937-939 (rtf; the same at 1116-1118, 1292-1294, 1515-1517): '%' and ','
\* are removed, then pd.to_numeric(errors='coerce')
clean_numeric(cell) == parse_decimal(Without(Without(cell_str(cell), "%"), ","))

\* lines 678-680 (ods): ',' and ' ' are removed, then pd.to_numeric(errors='coerce');
\* a missing cell becomes the string 'nan', which is read back as NaN
clean_numeric_ods(cell) ==
    IF cell = Null THEN Null
    ELSE parse_decimal(Without(Without(cell.s, ","), " "))

\* x <= bound for a number x = m / 10^e and an integer bound
RECURSIVE Pow10(_)
Pow10(e) == IF e = 0 THEN 1 ELSE 10 * Pow10(e - 1)

NumLeq(x, bound) == x.m <= bound * Pow10(x.e)
NumLt(x, bound) == x.m < bound * Pow10(x.e)

-----------------------------------------------------------------------------
(* The line parsers: extract_data_from_rtf, _docx, _doc (one shared loop body)
   and extract_data_from_pdf *)

ExpectedColumns == 7      \* len(standard_columns) = len(column_names)

standard_columns_star ==
    <<"Prison Name", "Baseline CNA", "In Use CNA", "Operational Capacity",
      "Population *", "% Pop to In Use CNA", "% Accommodation Available">>

\* the default column names (lines 906-907, 977-978): 'Population' without the star
default_column_names ==
    <<"Prison Name", "Baseline CNA", "In Use CNA", "Operational Capacity",
      "Population", "% Pop to In Use CNA", "% Accommodation Available">>

\* line 826: the header test of the rtf, docx and doc parsers
is_header_line(line) ==
    Has(line, "Prison Name") /\ (Has(line, "Baseline") \/ Has(line, "CNA"))

\* lines 1021-1022: the header test of the pdf parser
is_pdf_header_line(line) ==
    \/ Has(line, "Prison Name") /\ Has(line, "Baseline") /\ Has(line, "CNA")
    \/ Has(line, "Prison Name") /\ Has(line, "Population")

footer_terms == {"Sub total", "NOMS Operated", "Definitions of Accommodation", "Total"}

pdf_footer_terms == {"Sub total", "NOMS Operated", "Definitions of Accommodation"}

\* line 865
is_footer_line(line) == \E term \in footer_terms : Has(line, term)

\* line 1031
is_pdf_footer_line(line) == \E term \in pdf_footer_terms : Has(line, term)

\* lines 832-836: the header line with its continuation, if the next line is one
header_with_continuation(lines, i) ==
    LET line == Strip(lines[i])
        next_line == IF i + 1 <= Len(lines) THEN Strip(lines[i + 1]) ELSE ""
    IN  IF i + 1 <= Len(lines) /\ next_line # "" /\ Has(next_line, "Capacity")
           /\ ~StartsWithLetter(next_line)
        THEN line \o " " \o next_line
        ELSE line

\* lines 844-850: adjacent 'Operational', 'Capacity' become one name
merge_operational_capacity(names) ==
    LET ops == {i \in DOMAIN names : names[i] = "Operational"}
        caps == {i \in DOMAIN names : names[i] = "Capacity"}
    IN  IF ops # {} /\ caps # {} /\ Least(caps) = Least(ops) + 1
        THEN SubSeq(names, 1, Least(ops) - 1) \o <<"Operational Capacity">>
                 \o SubSeq(names, Least(caps) + 1, Len(names))
        ELSE names

\* the names the header line has, kept whatever their number
header_column_names_as_found(header_line) ==
    LET parts == SplitRuns(header_line)
        stripped == [i \in DOMAIN parts |-> Strip(parts[i])]
    IN  merge_operational_capacity(SelectSeq(stripped, LAMBDA p : p # ""))

\* lines 840-858: the column names a header line gives
header_column_names(header_line) ==
    LET parts == SplitRuns(header_line)
        stripped == [i \in DOMAIN parts |-> Strip(parts[i])]
        names == merge_operational_capacity(SelectSeq(stripped, LAMBDA p : p # ""))
    IN  IF Len(names) # ExpectedColumns THEN standard_columns_star ELSE names

\* line 887: the part opens the numeric data
is_numeric_part(part) ==
    StartsWithDigit(part) \/ StartsWith(part, "%") \/ EndsWith(part, "%")

\* lines 1046, 1055, 1062: the pdf parser's test
is_pdf_numeric_part(part) == StartsWithDigit(part) \/ EndsWith(part, "%")

\* the cells of a row: the name, then the parts from position idx on
name_and_numbers(parts, idx) ==
    <<Str(JoinSp(SubSeq(parts, 1, idx - 1)))>>
        \o [i \in 1..(Len(parts) - idx + 1) |-> Str(parts[idx + i - 1])]

\* line 877: the line can be a data row
is_data_line(line) ==
    StartsWithLetter(line) /\ ~StartsWith(line, "Report") /\ ~Has(line, "Prison Name")

\* lines 881-902: the row a data line gives; <<>> when no part opens numeric data
row_of_line(line) ==
    LET parts == Split(line)
        numeric == {j \in DOMAIN parts : is_numeric_part(parts[j])}
    IN  IF numeric = {} THEN <<>> ELSE name_and_numbers(parts, Least(numeric))

\* line 1014: a page-number line, ^Page\s+\d+$ or ^\d+$ (the line is stripped)
is_page_number_line(line) ==
    \/ IsDigitString(line)
    \/ /\ StartsWith(line, "Page")
       /\ Len(line) > 5
       /\ IsSpaceCh(Ch(line, 5))
       /\ IsDigitString(Strip(SubSeq(line, 5, Len(line))))

\* lines 1078-1088: a row of the pdf parser brought to the expected number of fields
pdf_fit_row(row_data) ==
    LET n == Len(row_data)
        extra == n - ExpectedColumns
    IN  IF n > ExpectedColumns
        THEN <<Str(JoinSp([i \in 1..(extra + 1) |-> row_data[i].s]))>>
                 \o SubSeq(row_data, extra + 2, n)
        ELSE row_data \o [i \in 1..(ExpectedColumns - n) |-> Null]

\* a pdf parser that keeps rows of the expected number of fields only
pdf_row_accepted_exact(row_data) == Len(row_data) = ExpectedColumns

\* line 1076: the row has close to the right number of fields
pdf_row_accepted(row_data) == Len(row_data) >= ExpectedColumns - 1

\* pd.DataFrame(data): every row is as wide as the widest, None where it was shorter
Width(rows) == IF rows = <<>> THEN 0 ELSE Greatest({Len(rows[i]) : i \in DOMAIN rows})

\* a frame whose wider rows have their first fields joined into the name
fit_to_columns_folding(cells) == pdf_fit_row(cells)

\* lines 914-928: one row of the frame brought to the expected number of columns:
\* iloc[:, :len(column_names)] when the frame is wider, None columns when narrower
fit_to_columns(cells) ==
    [i \in 1..ExpectedColumns |-> IF i <= Len(cells) THEN cells[i] ELSE Null]

\* the position of column c in cols
ColumnIndex(cols, c) == Least({i \in DOMAIN cols : cols[i] = c})

\* lines 931-939: the cells of one row under their column names, every column but
\* 'Prison Name' made numeric
typed_row(cols, cells) ==
    [c \in Range(cols) |->
        IF c = "Prison Name" THEN cells[ColumnIndex(cols, c)]
        ELSE clean_numeric(cells[ColumnIndex(cols, c)])]

\* lines 947-948: 'Population' becomes 'Population *'
star_population(cols) ==
    IF "Population" \in Range(cols) /\ "Population *" \notin Range(cols)
    THEN [i \in DOMAIN cols |-> IF cols[i] = "Population" THEN "Population *" ELSE cols[i]]
    ELSE cols

star_population_row(cols, r) ==
    [c \in Range(star_population(cols)) |->
        IF c \in Range(cols) THEN r[c] ELSE r["Population"]]

\* lines 952-953: the name is there and does not contain 'total' in any letter case
name_is_kept(v) == v # Null /\ ~Has(Lower(v.s), "total")

\* lines 930-953 (rtf; the same at 1110-1132, 1286-1308, 1509-1531): the table made
\* of the rows, given as records of cells and source position; the result pairs
\* the table with the source positions of its rows
finish_table(cols, rows, file_path, pages) ==
    LET typed == [i \in DOMAIN rows |->
                     [vals |-> star_population_row(cols, typed_row(cols, rows[i].cells)),
                      src |-> rows[i].src]]
        named == star_population(cols)
        kept == IF "Prison Name" \in Range(named)
                THEN SelectSeq(typed, LAMBDA r : name_is_kept(r.vals["Prison Name"]))
                ELSE typed
        df == Table(named, [i \in DOMAIN kept |-> kept[i].vals])
        report_date == extract_report_date_from_file(file_path, pages)
    IN  [df |-> IF report_date # Null THEN set_column(df, "Report_Date", report_date) ELSE df,
         src |-> [i \in DOMAIN kept |-> kept[i].src]]

\* x * 10^n
Scaled(x, n) == IF n >= 0 THEN Normal(x.m * Pow10(n), x.e) ELSE Normal(x.m, x.e - n)

\* float(s): a decimal numeral, with an exponent or without, or a spelling of
\* infinity or of not-a-number in any letter case; Null when float(s) raises
parse_float(s) ==
    LET t == Lower(Strip(s))
        body == IF Len(t) > 0 /\ Ch(t, 1) \in {"-", "+"} THEN SubSeq(t, 2, Len(t)) ELSE t
        exps == {i \in 1..Len(t) : Ch(t, i) = "e"}
    IN  IF body \in {"inf", "infinity"} THEN [k |-> "inf", neg |-> Ch(t, 1) = "-"]
        ELSE IF body = "nan" THEN [k |-> "nan"]
        ELSE IF Cardinality(exps) = 1
        THEN LET i == Least(exps)
                 mantissa == SubSeq(t, 1, i - 1)
                 exponent == SubSeq(t, i + 1, Len(t))
             IN  IF parse_decimal(mantissa) = Null \/ parse_decimal(exponent) = Null
                    \/ Has(exponent, ".") \/ Has(t, " ")
                 THEN Null
                 ELSE Scaled(parse_decimal(mantissa), parse_decimal(exponent).m)
        ELSE IF Has(t, " ") THEN Null
        ELSE parse_decimal(t)

\* a validator that takes every metric for a number in range
in_any_range(cell) == FALSE

\* float(str(value).replace(',', '').replace('%', '')) is a number outside [0, 10000]
out_of_range(cell) ==
    LET x == parse_float(Without(Without(cell_str(cell), ","), "%"))
    IN  /\ cell # Null
        /\ x # Null
        /\ \/ x.k = "inf"
           \/ x.k = "num" /\ (NumLt(x, 0) \/ ~NumLeq(x, 10000))

\* lines 1544-1586
validate_prison_data(rows) ==
    /\ Len(rows) >= 2
    /\ \A i \in DOMAIN rows : Len(rows[i]) >= 2 /\ Len(rows[i]) <= 10
    /\ \A i \in DOMAIN rows : rows[i][1] # Null /\ HasLetter(rows[i][1].s)
    /\ \A i \in DOMAIN rows : \A j \in 2..Len(rows[i]) : ~out_of_range(rows[i][j])

\* '\n'.join(lines): the recovered text of the lines
RECURSIVE JoinLines(_)
JoinLines(lines) ==
    IF Len(lines) = 0 THEN ""
    ELSE IF Len(lines) = 1 THEN lines[1]
    ELSE lines[1] \o "\n" \o JoinLines(Tail(lines))

\* str(cell).replace('\n', ' ').strip()
RECURSIVE clean_cell(_)
clean_cell(s) ==
    LET hits == {i \in 1..Len(s) : Ch(s, i) = "\n"}
    IN  IF hits = {} THEN Strip(s)
        ELSE Strip(SubSeq(s, 1, Least(hits) - 1) \o " "
                     \o (IF Least(hits) = Len(s) THEN ""
                         ELSE clean_cell(SubSeq(s, Least(hits) + 1, Len(s)))))

\* lines 1614-1616: the first row of the table looks like the header of a prison table
relaxed_header_ok(header) ==
    LET words == JoinSp(SelectSeq([i \in DOMAIN header |-> cell_str(header[i])],
                                  LAMBDA w : w # "None"))
    IN  \E keyword \in {"Prison", "CNA", "Capacity"} : Has(words, keyword)

\* lines 1620-1635: the table row is taken
relaxed_row_ok(row) ==
    /\ Len(row) > 0
    /\ row[1] # Null /\ row[1].s # ""
    /\ ~Has(Lower(row[1].s), "total")
    /\ clean_cell(row[1].s) # ""
    /\ ~StartsWithDigit(clean_cell(row[1].s))

relaxed_clean_row(row) ==
    [i \in DOMAIN row |-> IF row[i] = Null THEN Null ELSE Str(clean_cell(row[i].s))]

\* lines 1608-1635: the rows one table gives, t being the table's position
relaxed_table_rows(table, t) ==
    IF Len(table) <= 1 \/ ~relaxed_header_ok(table[1]) THEN <<>>
    ELSE LET taken == SelectSeq([k \in 1..(Len(table) - 1) |-> k + 1],
                                LAMBDA r : relaxed_row_ok(table[r]))
         IN  [k \in DOMAIN taken |->
                 [cells |-> relaxed_clean_row(table[taken[k]]), src |-> <<t, taken[k]>>]]

\* lines 1589-1640: extract_data_from_pdf_relaxed
RECURSIVE relaxed_rows_from(_, _)
relaxed_rows_from(tables, t) ==
    IF t > Len(tables) THEN <<>>
    ELSE relaxed_table_rows(tables[t], t) \o relaxed_rows_from(tables, t + 1)

extract_data_from_pdf_relaxed(tables) == relaxed_rows_from(tables, 1)

-----------------------------------------------------------------------------
(* The spreadsheet parser: extract_data_from_ods *)

ods_numeric_columns == <<"Baseline CNA", "In Use CNA", "Operational Capacity", "Population *">>

ods_columns ==
    <<"Prison Name", "Baseline CNA", "In Use CNA", "Operational Capacity",
      "Population *", "Report_Date">>

\* the name of a sheet column: the header cell
ods_column_name(cell) == IF cell = Null THEN "nan" ELSE cell.s

\* lines 644-647: the first row whose first cell, stripped, is 'Prison Name'; 0 if none
ods_header_row(sheet) ==
    LET hits == {i \in DOMAIN sheet :
                    /\ Len(sheet[i]) > 0
                    /\ sheet[i][1] # Null
                    /\ Strip(sheet[i][1].s) = "Prison Name"}
    IN  IF hits = {} THEN 0 ELSE Least(hits)

\* lines 664, 674-680: one sheet row under the header's column names, the name as a
\* string ('nan' when missing), the numeric columns made numeric
ods_typed_row(headers, cells) ==
    [c \in {ods_column_name(headers[i]) : i \in DOMAIN headers} |->
        LET i == Least({x \in DOMAIN headers : ods_column_name(headers[x]) = c})
        IN  IF c = "Prison Name" THEN Str(IF cells[i] = Null THEN "nan" ELSE cells[i].s)
            ELSE IF c \in Range(ods_numeric_columns) THEN clean_numeric_ods(cells[i])
            ELSE cells[i]]

\* a filter that drops a row as soon as one numeric column is NaN
ods_has_metric_all(r, numeric) == \A c \in numeric : r[c] # Null

\* line 771: dropna(how='all', subset=available_numeric_columns)
ods_has_metric(r, numeric) == \E c \in numeric : r[c] # Null

\* line 651: the column names the header row gives
ods_names(headers) == {ods_column_name(headers[i]) : i \in DOMAIN headers}

\* lines 654, 664, 674-680: the rows below the header row h, typed, each with the
\* sheet row it comes from
ods_body(sheet, h) ==
    [i \in 1..(Len(sheet) - h) |->
        [vals |-> ods_typed_row(sheet[h], sheet[h + i]), src |-> h + i]]

\* lines 666-671: the rows before the first whose name contains 'total'
ods_before_total(body, names) ==
    LET totals == {i \in DOMAIN body : Has(Lower(body[i].vals["Prison Name"].s), "total")}
    IN  IF "Prison Name" \in names /\ totals # {}
        THEN SubSeq(body, 1, Least(totals) - 1)
        ELSE body

\* lines 768-771: the rows with a value in one of the numeric columns present
ods_with_metric(body, numeric) ==
    IF numeric = {} THEN body
    ELSE SelectSeq(body, LAMBDA r : ods_has_metric(r.vals, numeric))

\* lines 742-786: no date or no row gives the empty table; else the columns wanted
\* that the sheet has, with the report date in every row
ods_table(kept, names, report_date) ==
    LET columns == SelectSeq(ods_columns, LAMBDA c : c \in names \cup {"Report_Date"})
    IN  IF report_date = Null \/ report_date.k = "error" \/ kept = <<>>
        THEN [df |-> EmptyTable, src |-> <<>>]
        ELSE [df |-> Table(columns,
                           [i \in DOMAIN kept |->
                               [c \in Range(columns) |->
                                   IF c = "Report_Date" THEN report_date
                                   ELSE kept[i].vals[c]]]),
              src |-> [i \in DOMAIN kept |-> kept[i].src]]

ods_rows_below(sheet, h) ==
    ods_with_metric(ods_before_total(ods_body(sheet, h), ods_names(sheet[h])),
                    Range(ods_numeric_columns) \cap ods_names(sheet[h]))

\* lines 628-786
extract_data_from_ods(sheet, file_path) ==
    IF ods_header_row(sheet) = 0 THEN [df |-> EmptyTable, src |-> <<>>]
    ELSE ods_table(ods_rows_below(sheet, ods_header_row(sheet)),
                   ods_names(sheet[ods_header_row(sheet)]),
                   ods_report_date(file_path))

-----------------------------------------------------------------------------
(* The parsers' state machine: a file is chosen, its lines are scanned one by
   one, the rows are assembled into the table the parser returns *)

MaxLines == 3

TextFormats == {"rtf", "docx", "doc"}

HeaderLine ==
    "Prison Name  Baseline CNA  In Use CNA  Operational Capacity  Population *  % Pop to In Use CNA  % Accommodation Available"

\* the lines a recovered text is made of
LineSamples ==
    { HeaderLine,
      "Altcourse 794 N/A 1033 1,234 98% 2%",
      "Bure % N/A",
      "Cookham Wood 1 2 3 4 5 6 7 8 9 10",
      "Total 5,000 5,000 6,000 5,500 97% 3%",
      "Pop% 10 20 30 40 50 60",
      "Askham Grange",
      "1,234 20 30 40 50 60",
      "Drake Hall 315 315 340 300 88%" }

\* header lines whose number of names is not the expected one, or is only after
\* 'Operational' and 'Capacity' are made one name
HeaderSix ==
    "Prison Name  Baseline CNA  In Use CNA  Operational Capacity  Population *  % Pop to In Use CNA"

HeaderEight ==
    "Prison Name  Baseline CNA  In Use CNA  Operational Capacity  Population *  % Pop to In Use CNA  % Accommodation Available  Notes"

HeaderOne == "Prison Name Baseline CNA In Use CNA Operational Capacity Population"

HeaderSplit ==
    "Prison Name  Baseline  In Use  Operational  Capacity  Population  % Pop  % Available"

HeaderSamples == {HeaderSix, HeaderEight, HeaderOne, HeaderSplit}

\* the data lines that follow such a header line
RowSamples == {"Altcourse 794 N/A 1033 1,234 98% 2%", "Bure % N/A"}

\* rows of a legacy file with metrics inside and outside the range of the validator,
\* a row without a name and a row of eleven fields
ValidatorRows ==
    { "Altcourse 794 N/A 1033 1,234 98% 2%",
      "Bure 604 10,000%",
      "Bure 604 12,345",
      "Bure 604 -5",
      "Bure 604 1e5",
      "Bure 604 inf",
      "Bure 604 nan",
      "Pop% 10 20",
      "Cookham Wood 1 2 3 4 5 6 7 8 9 10" }

\* the line that stands for a page break in the lines of a pdf
PageBreak == "\f"

\* the pages of a pdf whose lines, page breaks included, are given
RECURSIVE PagesOf(_)
PagesOf(lines) ==
    LET breaks == {i \in DOMAIN lines : lines[i] = PageBreak}
    IN  IF breaks = {} THEN <<lines>>
        ELSE <<SubSeq(lines, 1, Least(breaks) - 1)>>
                 \o PagesOf(SubSeq(lines, Least(breaks) + 1, Len(lines)))

\* the tables page.extract_tables() finds in a pdf whose text gives no row
PdfTableSamples ==
    { <<>>,
      << << <<Str("Prison Name"), Str("Baseline CNA"), Str("In Use CNA"),
              Str("Operational Capacity"), Str("Population"), Str("% Pop"), Str("% Acc")>>,
            <<Str("Altcourse"), Str("794"), Str("794"), Str("1033"), Str("1,234"),
              Str("98%"), Null>>,
            <<Str("Total"), Str("794"), Str("794"), Str("1033"), Str("1,234"),
              Str("98%"), Str("2%")>>,
            <<Str("Bure\nAnnexe"), Str("604"), Str("N/A")>> >> >>,
      << << <<Str("Prison Name"), Str("Baseline CNA"), Str("Population")>>,
            <<Str("Altcourse"), Str("794"), Str("1,234")>>,
            <<Str("Bure"), Str("604"), Str("N/A")>> >> >> }

\* the rows of a spreadsheet
SheetRowSamples ==
    { <<Str("Population Bulletin"), Null, Null, Null, Null>>,
      <<Str("Prison Name"), Str("Baseline CNA"), Str("In Use CNA"),
        Str("Operational Capacity"), Str("Population *")>>,
      <<Str("Altcourse"), Str("794"), Str("N/A"), Str("1033"), Str("1,234 ")>>,
      <<Str("Bure"), Str("N/A"), Str("N/A"), Null, Null>>,
      <<Str("Grand Total"), Str("5,000"), Str("5,000"), Str("6,000"), Str("5,500")>>,
      <<Null, Str("1"), Str("2"), Str("3"), Str("4")>> }

SheetNames == {"prison-pop-august-2022.ods", "2022 aug.ods", "report.ods"}

\* chr(c) for the characters Ord is defined on
Chr(c) ==
    IF c = 10 THEN "\n"
    ELSE IF c = 13 THEN "\r"
    ELSE IF c = 9 THEN "\t"
    ELSE IF c < 96 THEN Ch(PrintableLo, c - 31)
    ELSE Ch(PrintableHi, c - 96)

\* the str of a sequence of code points
RECURSIVE Decode(_)
Decode(codes) ==
    IF codes = <<>> THEN ""
    ELSE IF Len(codes) = 1 THEN Chr(codes[1])
    ELSE LET h == Len(codes) \div 2
         IN  Decode(SubSeq(codes, 1, h)) \o Decode(SubSeq(codes, h + 1, Len(codes)))

\* line 1381: lines = text.split('\n')
text_lines(text) == SplitOn(text, "\n", "")

\* a legacy file whose WordDocument stream, and whose bytes, hold a header line and
\* two prison rows on lines of their own
TableBytes ==
    <<208, 207, 17, 224>> \o Filler60 \o Filler60
        \o Codes("Prison Name  Baseline CNA\nAltcourse 794 N/A 1033 1,234 98% 2%\nBure 604 604 650 640 98% 2%\n")
        \o <<0, 0>>

\* the texts doc_to_text returns from the container-stream stage and from the
\* byte-scan stage (lines 279-280, 381-382)
OleReturned == {t \in {ole_text(b) : b \in DocBytes \cup {TableBytes}} : ole_accepts(t)}
RawReturned ==
    {t \in {raw_text(b) : b \in DocBytes \cup {TableBytes}} : t # <<>> /\ raw_accepts(t)}

\* the file a parser is given: format, name, and what the recovery layer reads
\* from it (pages of lines; for a pdf also its tables; for a spreadsheet its rows)
ParseInputs ==
    [fmt : TextFormats, name : {"prison-pop-august-2022"},
     pages : {<<lines>> : lines \in SeqsUpTo(LineSamples, MaxLines)},
     tables : {<<>>}, tpages : {<<>>}, sheet : {<<>>}]
    \cup
    [fmt : TextFormats, name : {"prison-pop-august-2022"},
     pages : {<<(<<header>> \o lines)>> :
                 header \in HeaderSamples, lines \in SeqsUpTo(RowSamples, MaxLines - 1)},
     tables : {<<>>}, tpages : {<<>>}, sheet : {<<>>}]
    \cup
    {[fmt |-> "pdf", name |-> "prison-pop-august-2022", pages |-> PagesOf(lines),
      tables |-> tables, tpages |-> [t \in DOMAIN tables |-> 1],
      sheet |-> <<>>] :
        lines \in SeqsUpTo(LineSamples \cup {PageBreak}, MaxLines),
        tables \in {<<>>}}
    \cup
    {[fmt |-> "pdf", name |-> "prison-pop-august-2022", pages |-> <<lines>>,
      tables |-> tables, tpages |-> [t \in DOMAIN tables |-> 1],
      sheet |-> <<>>] :
        lines \in SeqsUpTo(LineSamples, 1), tables \in PdfTableSamples \ {<<>>}}
    \cup
    {[fmt |-> "doc", name |-> "prison-pop-august-2022",
      pages |-> <<(<<HeaderLine, first, second>>)>>,
      tables |-> <<>>, tpages |-> <<>>, sheet |-> <<>>] :
        first \in ValidatorRows, second \in ValidatorRows}
    \cup
    {[fmt |-> "pdf", name |-> "prison-pop-august-2022",
      pages |-> <<(<<"Askham Grange">>), (<<"Definitions of Accommodation">>)>>,
      tables |-> tables, tpages |-> [t \in DOMAIN tables |-> p], sheet |-> <<>>] :
        tables \in PdfTableSamples \ {<<>>}, p \in 1..2}
    \cup
    {[fmt |-> "doc", name |-> "prison-pop-august-2022",
      pages |-> <<text_lines(Decode(t))>>,
      tables |-> <<>>, tpages |-> <<>>, sheet |-> <<>>] :
        t \in OleReturned \cup RawReturned}
    \cup
    {[fmt |-> "ods", name |-> Stem(name), pages |-> <<>>, tables |-> <<>>, tpages |-> <<>>,
      sheet |-> sheet] :
        name \in SheetNames, sheet \in SeqsUpTo(SheetRowSamples, MaxLines)}

ParseStart ==
    /\ pfile \in ParseInputs
    /\ ppc = IF pfile.fmt = "doc" THEN "gate" ELSE IF pfile.fmt = "ods" THEN "sheet" ELSE "scan"
    /\ ppage = 1
    /\ pline = IF pfile.fmt = "pdf" THEN 0 ELSE 1
    /\ column_names = <<>>
    /\ data = <<>>
    /\ rejected = <<>>
    /\ in_data_section = FALSE
    /\ data_section_ended = FALSE
    /\ current_prison = Null
    /\ pout = Null
    /\ psrc = <<>>
    /\ pqueue = <<>>
    /\ presults = <<>>

InitParse == ParseStart /\ ValidIdle /\ DateIdle /\ CombineIdle

\* the path of the file and the texts the date scan reads from it
FilePath == pfile.name \o "." \o pfile.fmt

PageTexts == [p \in DOMAIN pfile.pages |-> JoinLines(pfile.pages[p])]

\* lines 1346-1377: the text of a legacy file is parsed only if it is valid; a text
\* that is not gives the empty table on every platform (on Windows through the
\* conversion attempt of lines 1358-1368, whose call of extract_data_from_docx with
\* one argument raises into the handler of line 1538)
DocGate ==
    /\ ppc = "gate"
    /\ LET text == PageTexts[1]
       IN  IF text # "" /\ is_valid_doc_text(Codes(text))
           THEN ppc' = "scan" /\ UNCHANGED pout
           ELSE ppc' = "done" /\ pout' = Returns(EmptyTable)
    /\ UNCHANGED <<pfile, ppage, pline, column_names, data, rejected, in_data_section,
                   data_section_ended, current_prison, psrc>>
    /\ UNCHANGED <<validVars, dateVars, combineVars, pqueue, presults>>

\* lines 818-902 (rtf; 1173-1257 docx; 1391-1475 doc): the loop body for one line
ScanTextLine ==
    /\ ppc = "scan"
    /\ pfile.fmt \in TextFormats
    /\ pline <= Len(pfile.pages[1])
    /\ LET lines == pfile.pages[1]
           line == Strip(lines[pline])
           row == row_of_line(line)
       IN  IF line = ""
           THEN UNCHANGED <<column_names, data, in_data_section, data_section_ended>>
           ELSE IF is_header_line(line)
           THEN /\ in_data_section' = TRUE
                /\ column_names' = header_column_names(header_with_continuation(lines, pline))
                /\ UNCHANGED <<data, data_section_ended>>
           ELSE IF ~in_data_section
           THEN UNCHANGED <<column_names, data, in_data_section, data_section_ended>>
           ELSE IF is_footer_line(line)
           THEN /\ data_section_ended' = TRUE
                /\ UNCHANGED <<column_names, data, in_data_section>>
           ELSE IF Has(line, "Report Date:") \/ StartsWith(line, "Page")
           THEN UNCHANGED <<column_names, data, in_data_section, data_section_ended>>
           ELSE IF ~data_section_ended /\ is_data_line(line) /\ row # <<>>
           THEN /\ data' = Append(data, [cells |-> row, src |-> <<1, pline>>])
                /\ UNCHANGED <<column_names, in_data_section, data_section_ended>>
           ELSE UNCHANGED <<column_names, data, in_data_section, data_section_ended>>
    /\ pline' = pline + 1
    /\ UNCHANGED <<pfile, ppc, ppage, rejected, current_prison, pout, psrc>>
    /\ UNCHANGED <<validVars, dateVars, combineVars, pqueue, presults>>

\* lines 904-958 (rtf; 1259-1313 docx; 1477-1536 doc): the table of the rows
FinishText ==
    /\ ppc = "scan"
    /\ pfile.fmt \in TextFormats
    /\ pline > Len(pfile.pages[1])
    /\ LET cols == IF column_names = <<>> THEN default_column_names ELSE column_names
           fitted == [i \in DOMAIN data |->
                         [cells |-> fit_to_columns(data[i].cells), src |-> data[i].src]]
           result == finish_table(cols, fitted, FilePath, PageTexts)
       IN  IF data = <<>>
           THEN pout' = Returns(EmptyTable) /\ psrc' = <<>>
           ELSE IF pfile.fmt = "doc"
                   /\ ~validate_prison_data([i \in DOMAIN data |-> data[i].cells])
           THEN pout' = Returns(EmptyTable) /\ psrc' = <<>>
           ELSE pout' = Returns(result.df) /\ psrc' = result.src
    /\ ppc' = "done"
    /\ UNCHANGED <<pfile, ppage, pline, column_names, data, rejected, in_data_section,
                   data_section_ended, current_prison>>
    /\ UNCHANGED <<validVars, dateVars, combineVars, pqueue, presults>>

\* the page is passed over: the last page of several (line 986), or a page
\* without text (line 991)
page_skipped(pages, p) == (p >= Len(pages) /\ Len(pages) > 1) \/ pages[p] = <<>>

\* lines 984-999: the loop over pages comes to a page
EnterPage ==
    /\ ppc = "scan"
    /\ pfile.fmt = "pdf"
    /\ ppage <= Len(pfile.pages)
    /\ pline = 0
    /\ IF page_skipped(pfile.pages, ppage)
       THEN ppage' = ppage + 1 /\ UNCHANGED <<pline, in_data_section, current_prison>>
       ELSE /\ in_data_section' = FALSE
            /\ current_prison' = Null
            /\ pline' = 1
            /\ UNCHANGED ppage
    /\ UNCHANGED <<pfile, ppc, column_names, data, rejected, data_section_ended, pout, psrc>>
    /\ UNCHANGED <<validVars, dateVars, combineVars, pqueue, presults>>

\* line 1055: the line is the numeric data of the prison name held over
pdf_pairs(line, held) ==
    held # Null /\ \A j \in DOMAIN Split(line) : is_pdf_numeric_part(Split(line)[j])

\* lines 1040-1073: the row a line of the data section gives, with the prison name
\* held over from the line before; <<>> when the line gives none
pdf_row_of_line(line, held) ==
    LET parts == Split(line)
        numeric == {j \in DOMAIN parts : is_pdf_numeric_part(parts[j])}
    IN  IF Len(parts) < 2 \/ IsDigitString(parts[1]) THEN <<>>
        ELSE IF numeric = {} THEN <<>>
        ELSE IF pdf_pairs(line, held)
        THEN <<held>> \o [i \in DOMAIN parts |-> Str(parts[i])]
        ELSE name_and_numbers(parts, Least(numeric))

\* lines 1050-1052: the line is a prison name to hold for the next line
pdf_holds_name(line) ==
    LET parts == Split(line)
    IN  /\ Len(parts) >= 2
        /\ ~IsDigitString(parts[1])
        /\ \A j \in DOMAIN parts : ~is_pdf_numeric_part(parts[j])

\* lines 1001-1092: the loop body for one line of a page
ScanPdfLine ==
    /\ ppc = "scan"
    /\ pfile.fmt = "pdf"
    /\ ppage <= Len(pfile.pages)
    /\ pline >= 1
    /\ LET page == pfile.pages[ppage]
           line == Strip(page[pline])
           row == pdf_row_of_line(line, current_prison)
       IN  /\ IF line = "" \/ is_page_number_line(line)
              THEN UNCHANGED <<data, rejected, in_data_section, current_prison>>
              ELSE IF is_pdf_header_line(line)
              THEN in_data_section' = TRUE /\ UNCHANGED <<data, rejected, current_prison>>
              ELSE IF Has(line, "Report Date:")
              THEN UNCHANGED <<data, rejected, in_data_section, current_prison>>
              ELSE IF is_pdf_footer_line(line)
              THEN in_data_section' = FALSE /\ UNCHANGED <<data, rejected, current_prison>>
              ELSE IF ~in_data_section
              THEN UNCHANGED <<data, rejected, in_data_section, current_prison>>
              ELSE IF pdf_holds_name(line)
              THEN current_prison' = Str(line) /\ UNCHANGED <<data, rejected, in_data_section>>
              ELSE IF row = <<>>
              THEN UNCHANGED <<data, rejected, in_data_section, current_prison>>
              ELSE /\ current_prison' = IF pdf_pairs(line, current_prison) THEN Null
                                        ELSE current_prison
                   /\ IF pdf_row_accepted(row)
                      THEN /\ data' = Append(data, [cells |-> pdf_fit_row(row),
                                                    src |-> <<ppage, pline>>])
                           /\ UNCHANGED rejected
                      ELSE /\ rejected' = Append(rejected, [cells |-> row,
                                                            src |-> <<ppage, pline>>])
                           /\ UNCHANGED data
                   /\ UNCHANGED in_data_section
           /\ IF pline = Len(page)
              THEN ppage' = ppage + 1 /\ pline' = 0
              ELSE pline' = pline + 1 /\ UNCHANGED ppage
    /\ UNCHANGED <<pfile, ppc, column_names, data_section_ended, pout, psrc>>
    /\ UNCHANGED <<validVars, dateVars, combineVars, pqueue, presults>>

\* lines 1094-1140: the relaxed extraction when the text gave no row, then the table
FinishPdf ==
    /\ ppc = "scan"
    /\ pfile.fmt = "pdf"
    /\ ppage > Len(pfile.pages)
    /\ LET all_data == IF data = <<>> THEN extract_data_from_pdf_relaxed(pfile.tables)
                       ELSE data
           width == Width([i \in DOMAIN all_data |-> all_data[i].cells])
           padded == [i \in DOMAIN all_data |->
                         [cells |-> fit_to_columns(all_data[i].cells),
                          src |-> all_data[i].src]]
           result == finish_table(default_column_names, padded, FilePath, PageTexts)
       IN  /\ data' = all_data
           /\ IF all_data = <<>>
              THEN pout' = Returns(EmptyTable) /\ psrc' = <<>>
              ELSE IF width # ExpectedColumns
              THEN pout' = Raises /\ psrc' = <<>>
              ELSE pout' = Returns(result.df) /\ psrc' = result.src
    /\ ppc' = "done"
    /\ UNCHANGED <<pfile, ppage, pline, column_names, rejected, in_data_section,
                   data_section_ended, current_prison>>
    /\ UNCHANGED <<validVars, dateVars, combineVars, pqueue, presults>>

\* lines 628-786: the spreadsheet parser
ReadSheet ==
    /\ ppc = "sheet"
    /\ LET result == extract_data_from_ods(pfile.sheet, FilePath)
       IN  pout' = Returns(result.df) /\ psrc' = result.src
    /\ ppc' = "done"
    /\ UNCHANGED <<pfile, ppage, pline, column_names, data, rejected, in_data_section,
                   data_section_ended, current_prison>>
    /\ UNCHANGED <<validVars, dateVars, combineVars, pqueue, presults>>

NextParse ==
    \/ DocGate
    \/ ScanTextLine
    \/ FinishText
    \/ EnterPage
    \/ ScanPdfLine
    \/ FinishPdf
    \/ ReadSheet

SpecParse == InitParse /\ [][NextParse]_vars

-----------------------------------------------------------------------------
(* One process parsing several files in turn, as the loop of the combiner does *)

\* the files of a run of calls: every format, with and without a header line, a
\* pdf whose text ends on a held prison name, a pdf read from its tables
RerunInputs ==
    [fmt : TextFormats, name : {"prison-pop-august-2022"},
     pages : { <<(<<HeaderLine, "Altcourse 794 N/A 1033 1,234 98% 2%">>)>>,
               <<(<<HeaderSplit, "Altcourse 794 N/A 1033 1,234 98% 2%", "Bure % N/A">>)>>,
               <<(<<"Altcourse 794 N/A 1033 1,234 98% 2%">>)>> },
     tables : {<<>>}, tpages : {<<>>}, sheet : {<<>>}]
    \cup
    {[fmt |-> "pdf", name |-> "prison-pop-august-2022", pages |-> PagesOf(lines),
      tables |-> <<>>, tpages |-> <<>>, sheet |-> <<>>] :
        lines \in { <<HeaderLine, "Askham Grange", "1,234 20 30 40 50 60">>,
                    <<HeaderLine, "Drake Hall 315 315 340 300 88%", "Askham Grange">>,
                    <<"1,234 20 30 40 50 60">> }}
    \cup
    {[fmt |-> "pdf", name |-> "prison-pop-august-2022", pages |-> <<(<<"Askham Grange">>)>>,
      tables |-> tables, tpages |-> [t \in DOMAIN tables |-> 1],
      sheet |-> <<>>] : tables \in PdfTableSamples \ {<<>>}}
    \cup
    {[fmt |-> "ods", name |-> "prison-pop-august-2022", pages |-> <<>>, tables |-> <<>>,
      tpages |-> <<>>, sheet |-> sheet] :
        sheet \in { << <<Str("Prison Name"), Str("Baseline CNA"), Str("In Use CNA"),
                         Str("Operational Capacity"), Str("Population *")>>,
                       <<Str("Altcourse"), Str("794"), Str("N/A"), Str("1033"), Str("1,234 ")>> >>,
                    << <<Str("Bure"), Str("N/A"), Str("N/A"), Null, Null>> >> }}

\* a local variable that kept what the call before left in it
local_left_over(left_over, initial) == left_over

\* a local variable of a parser at the entry of a call: the value the function's
\* first statements give it (lines 811-815, 977-980, 1166-1170, 1384-1388)
local_at_entry(left_over, initial) == initial

RerunStart ==
    /\ pfile \in RerunInputs
    /\ pqueue \in {<<other, pfile>> : other \in RerunInputs}
    /\ presults = <<>>
    /\ ppc = IF pfile.fmt = "doc" THEN "gate" ELSE IF pfile.fmt = "ods" THEN "sheet" ELSE "scan"
    /\ ppage = 1
    /\ pline = IF pfile.fmt = "pdf" THEN 0 ELSE 1
    /\ column_names = <<>>
    /\ data = <<>>
    /\ rejected = <<>>
    /\ in_data_section = FALSE
    /\ data_section_ended = FALSE
    /\ current_prison = Null
    /\ pout = Null
    /\ psrc = <<>>

InitRerun == RerunStart /\ ValidIdle /\ DateIdle /\ CombineIdle

\* the parser has returned and the caller calls the parser of the next file
CallNext ==
    /\ ppc = "done"
    /\ pqueue # <<>>
    /\ presults' = Append(presults, [file |-> pfile, out |-> pout])
    /\ pfile' = Head(pqueue)
    /\ pqueue' = Tail(pqueue)
    /\ ppc' = IF Head(pqueue).fmt = "doc" THEN "gate"
              ELSE IF Head(pqueue).fmt = "ods" THEN "sheet" ELSE "scan"
    /\ ppage' = 1
    /\ pline' = IF Head(pqueue).fmt = "pdf" THEN 0 ELSE 1
    /\ column_names' = local_at_entry(column_names, <<>>)
    /\ data' = local_at_entry(data, <<>>)
    /\ rejected' = local_at_entry(rejected, <<>>)
    /\ in_data_section' = local_at_entry(in_data_section, FALSE)
    /\ data_section_ended' = local_at_entry(data_section_ended, FALSE)
    /\ current_prison' = local_at_entry(current_prison, Null)
    /\ pout' = Null
    /\ psrc' = <<>>
    /\ UNCHANGED <<validVars, dateVars, combineVars>>

NextRerun == NextParse \/ CallNext

SpecRerun == InitRerun /\ [][NextRerun]_vars

-----------------------------------------------------------------------------
(* C8: the text validity oracle *)

C8_HasKeyword(text) == \E k \in prison_keywords : Has(text, k)

C8_Accepts(text) ==
    /\ Len(text) >= 100
    /\ 5 * non_ascii_count(text) <= Len(text)
    /\ Count(text, Codes("Microsoft Word")) + Count(text, Codes("Microsoft Office")) <= 3
    /\ \A p \in suspicious_patterns : ~Has(text, p)
    /\ (C8_HasKeyword(text) \/ data_like_lines(text) >= 5)

\* C8: is_valid_doc_text returns true exactly when the text has at least 100
\* characters, at most 20% of them are non-ASCII or control characters (other than
\* newline, tab, carriage return), the vendor markers occur at most 3 times in
\* total, no corruption signature occurs, and the text holds a domain keyword or at
\* least 5 lines shaped like a name followed by two numbers; every text shorter
\* than 100 characters is rejected.
C8_OracleAcceptsExactly ==
    vpc = "judged" =>
        /\ verdict <=> C8_Accepts(vtext)
        /\ Len(vtext) < 100 => ~verdict

\* a text with no domain keyword accepted on its five data-shaped lines
C8_Witness ==
    /\ vpc = "judged"
    /\ verdict
    /\ ~C8_HasKeyword(vtext)
    /\ data_like_lines(vtext) >= 5

\* a keyword-bearing text rejected only for its length
C8_WitnessShort ==
    /\ vpc = "judged"
    /\ ~verdict
    /\ C8_HasKeyword(vtext)
    /\ Len(vtext) < 100
    /\ non_ascii_count(vtext) = 0

-----------------------------------------------------------------------------
(* C6, C7: the date resolver *)

C6_ContentExts == {".rtf", ".pdf", ".docx", ".doc"}

C6_Ext == Lower(SplitExt(dname))

\* dd/mm/yyyy names a day of the calendar
C6_IsCalendarDate(s) ==
    LET d == ToInt(SubSeq(s, 1, 2))
        m == ToInt(SubSeq(s, 4, 5))
        y == ToInt(SubSeq(s, 7, 10))
        feb == IF (y % 4 = 0 /\ y % 100 # 0) \/ y % 400 = 0 THEN 29 ELSE 28
        len == <<31, feb, 31, 30, 31, 30, 31, 31, 30, 31, 30, 31>>
    IN  y >= 1 /\ m \in 1..12 /\ d >= 1 /\ d <= len[m]

C6_DateOf(s) ==
    Date(ToInt(SubSeq(s, 7, 10)), ToInt(SubSeq(s, 4, 5)), ToInt(SubSeq(s, 1, 2)))

\* the positions of text where "Report Date:", white space and dd/dd/dddd stand
C6_Occurrences(text) == {i \in 1..Len(text) : ReportDateAt(text, i)}

\* the dd/dd/dddd of the occurrence at position i
C6_DateStrAt(text, i) ==
    LET j == i + 12 + SpaceRun(text, i + 12)
    IN  SubSeq(text, j, j + 9)

\* the valid calendar dates written as "Report Date: DD/MM/YYYY" anywhere in the content
C6_ValidDatesIn(pages) ==
    {C6_DateOf(C6_DateStrAt(pages[p], i)) :
        <<p, i>> \in {<<p, i>> \in (DOMAIN pages) \X (1..40) :
                        /\ i <= Len(pages[p])
                        /\ ReportDateAt(pages[p], i)
                        /\ C6_IsCalendarDate(C6_DateStrAt(pages[p], i))}}

\* C6 (as amended): for an rtf, docx or doc file (whole recovered text) and for a
\* pdf file (text of its first page only), the resolver returns a content-derived
\* date exactly when the FIRST occurrence of "Report Date: DD/MM/YYYY" in that text
\* is a valid calendar date, and then it returns that date, whatever month and year
\* the file name contains.
C6_FirstContentDateWins ==
    (dpc = "done" /\ C6_Ext \in C6_ContentExts) =>
        LET text == IF Len(dpages) > 0 THEN dpages[1] ELSE ""
            occ == C6_Occurrences(text)
            first == C6_DateStrAt(text, Least(occ))
        IN  IF occ # {} /\ C6_IsCalendarDate(first)
            THEN dsrc = "content" /\ dres = C6_DateOf(first)
            ELSE dsrc # "content"

\* content 15/03/2023 beats the file name's february_2023
C6_Witness ==
    /\ dpc = "done"
    /\ Has(Lower(dname), "february_2023")
    /\ dsrc = "content"
    /\ dres = Date(2023, 3, 15)

\* C6 (as stated): whenever the recovered content holds a valid
\* "Report Date: DD/MM/YYYY" anywhere, a content-derived date is returned
C6_AnyContentDateWins ==
    (dpc = "done" /\ C6_Ext \in C6_ContentExts /\ C6_ValidDatesIn(dpages) # {}) =>
        dsrc = "content" /\ dres \in C6_ValidDatesIn(dpages)

C7_MonthNames == {months[i].name : i \in DOMAIN months}

C7_MonthNum(name) == (CHOOSE i \in DOMAIN months : months[i].name = name)

\* the first 20dd of name, "none" when there is none
C7_Year(name) ==
    LET hits == {i \in 1..(Len(name) - 3) :
                    /\ SubSeq(name, i, i + 1) = "20"
                    /\ IsDigitCh(Ch(name, i + 2)) /\ IsDigitCh(Ch(name, i + 3))}
    IN  IF hits = {} THEN "none"
        ELSE SubSeq(name, Least(hits), Least(hits) + 3)

\* the month names the resolver can take from name: a month adjacent to the
\* first year (a single - or _ may stand between them), a month delimited by a
\* pair of - or a pair of _ (or opening the name before one, or closing it after
\* one), and, in the two file-name families, any month name the name contains
C7_UsableMonths(name, year) ==
    {mn \in C7_MonthNames :
        \/ \E sep \in {"", "-", "_"} :
              \/ Has(name, mn \o sep \o year)
              \/ Has(name, year \o sep \o mn)
        \/ \E sep \in {"-", "_"} :
              \/ Has(name, sep \o mn \o sep)
              \/ StartsWith(name, mn \o sep)
              \/ EndsWith(name, sep \o mn)
        \/ /\ \/ Has(name, "monthly") /\ Has(name, "bulletin")
              \/ Has(name, "prison-pop")
              \/ Has(name, "prison_pop")
           /\ Has(name, mn)}

\* the month names name contains
C7_ContainedMonths(name) == {mn \in C7_MonthNames : Has(name, mn)}

C7_Day(m) == IF m = 2 THEN 28 ELSE IF m \in {4, 6, 9, 11} THEN 30 ELSE 31

\* the content attempt found no "Report Date: DD/MM/YYYY" at all
C7_NoContentDate == \A p \in DOMAIN dpages : C6_Occurrences(dpages[p]) = {}

\* C7 (as amended): with no in-content date, the resolver returns a date exactly
\* when the lower-cased name holds a 20xx year and a month name in one of the
\* arrangements above; the date has the first 20xx of the name as year, the month
\* of one of those month names, and day 28 for February, 30 for April, June,
\* September and November, 31 otherwise.
C7_FilenameFallback ==
    (dpc = "done" /\ C7_NoContentDate) =>
        LET name == Lower(dname)
            year == C7_Year(name)
            usable == IF year = "none" THEN {} ELSE C7_UsableMonths(name, year)
        IN  IF usable # {}
            THEN /\ dres.k = "date"
                 /\ dres.y = ToInt(year)
                 /\ \E mn \in usable : dres.m = months[C7_MonthNum(mn)].num
                 /\ dres.d = C7_Day(dres.m)
            ELSE dres = Null

\* prison-pop-august-2022.ods gives 2022-08-31
C7_Witness ==
    /\ dpc = "done"
    /\ dname = "prison-pop-august-2022.ods"
    /\ dsrc = "filename"
    /\ dres = Date(2022, 8, 31)

\* C7 (as stated): with no in-content date, every name that contains a 20xx year
\* and a month name or abbreviation gets a date in that year and month
C7_AnyYearAndMonth ==
    (dpc = "done" /\ C7_NoContentDate) =>
        LET name == Lower(dname)
            year == C7_Year(name)
            contained == C7_ContainedMonths(name)
        IN  (year # "none" /\ contained # {}) =>
                /\ dres.k = "date"
                /\ dres.y = ToInt(year)
                /\ \E mn \in contained : dres.m = months[C7_MonthNum(mn)].num
                /\ dres.d = C7_Day(dres.m)

-----------------------------------------------------------------------------
(* C1, C2, C3: the corpus combiner *)

\* the parser of file e gave a non-empty table with the 'Prison Name' column
C1_Results == [e \in Range(FileSamples) |-> parser_result(e)]

C1_Usable(e) ==
    /\ C1_Results[e] # Raises
    /\ Len(C1_Results[e].df.rows) > 0
    /\ \E i \in DOMAIN C1_Results[e].df.cols : C1_Results[e].df.cols[i] = "Prison Name"

C1_Dispatched == {cfiles[i] : i \in DOMAIN cfiles}

C1_Denylist == {"% Pop to In Use CNA", "% Accommodation Available"}

\* row c of the combined table is row r of a per-file table: it has r's values in
\* r's columns (the denylisted ones aside) and null in every other column but the
\* report date
C1_Carries(c, r) ==
    /\ \A col \in (DOMAIN r) \ C1_Denylist : col \in DOMAIN c /\ c[col] = r[col]
    /\ \A col \in (DOMAIN c) \ (DOMAIN r) : col = "Report_Date" \/ c[col] = Null

\* C1: a file whose parser raises, returns an empty table or returns a table
\* without 'Prison Name' is skipped and the run continues: the loop accumulates one
\* table per usable file, and the returned table holds the rows of exactly the
\* usable files, none of them left out because another file failed.
C1_SingleFailureTolerated ==
    /\ (cpc = "loop" /\ cidx > Len(cfiles)) =>
          Len(dfs) = Cardinality({PathOf(e) : e \in {x \in C1_Dispatched : C1_Usable(x)}})
    /\ cpc = "returned" =>
          /\ \A e \in C1_Dispatched :
                C1_Usable(e) =>
                    \A i \in DOMAIN e.body.df.rows :
                        \E j \in DOMAIN combined.rows :
                            C1_Carries(combined.rows[j], e.body.df.rows[i])
          /\ \A j \in DOMAIN combined.rows :
                \E e \in C1_Dispatched :
                    /\ C1_Usable(e)
                    /\ \E i \in DOMAIN e.body.df.rows :
                          C1_Carries(combined.rows[j], e.body.df.rows[i])

\* a run with a raising file, a file without the name column and a usable file
\* returns the usable file's rows
C1_Witness ==
    /\ cpc = "returned"
    /\ \E e \in C1_Dispatched : e.body = Raises
    /\ \E e \in C1_Dispatched : e.body # Raises /\ ~C1_Usable(e)
    /\ Len(combined.rows) = 2

C2_CombinedWritten == \E i \in DOMAIN cwrites : cwrites[i].file = "combined_prison_data.csv"

\* C2: when no file of the corpus yields a non-empty table with 'Prison Name' (an
\* empty directory included) the call raises and writes no
\* combined_prison_data.csv; a combined table that is returned or written is never
\* empty.
C2_RaisesWithoutUsableFile ==
    /\ (cpc \in {"raised", "returned"} /\ \A i \in DOMAIN cdir : ~C1_Usable(cdir[i])) =>
          cpc = "raised" /\ ~C2_CombinedWritten
    /\ cpc = "returned" => Len(combined.rows) > 0
    /\ C2_CombinedWritten => (cpc = "returned" /\ Len(combined.rows) > 0)

\* three files, none usable: ValueError, no combined file
C2_Witness ==
    /\ cpc = "raised"
    /\ cerr = "ValueError"
    /\ Len(cfiles) = 3
    /\ ~C2_CombinedWritten

\* the empty directory
C2_WitnessEmptyDirectory ==
    /\ cpc = "raised"
    /\ cerr = "ValueError"
    /\ cdir = <<>>

\* the extension of e is one the globs list on every file system
C3_Listed(e) ==
    \E i \in DOMAIN extensions :
        SplitExt(e.name) = extensions[i] \/ SplitExt(e.name) = Upper(extensions[i])

\* C3: in every run in which at least one file yields a non-empty table with
\* 'Prison Name' the call returns the combined table and does not raise, whatever
\* the state of the output directory and whatever the other files do.
C3_RaisesOnlyWithoutData ==
    (cpc \in {"raised", "returned"}
        /\ \E i \in DOMAIN cdir : C3_Listed(cdir[i]) /\ C1_Usable(cdir[i])) =>
        cpc = "returned"

-----------------------------------------------------------------------------
(* C4, C5, C9, C10: the tabular parsers *)

\* the parser has handed back a table
C4_Returned == ppc = "done" /\ pout.k = "df"

\* the positions <<page, line>> of the lines of the recovered text
C4_Positions == UNION {{<<p, l>> : l \in DOMAIN pfile.pages[p]} : p \in DOMAIN pfile.pages}

C4_Line(pos) == pfile.pages[pos[1]][pos[2]]

C4_AtOrAfter(a, b) == a[1] > b[1] \/ (a[1] = b[1] /\ a[2] >= b[2])

C4_IsHeader(line) ==
    IF pfile.fmt = "pdf" THEN is_pdf_header_line(Strip(line)) ELSE is_header_line(Strip(line))

\* the lines that contain the marker "Total" below the table header of their page
C4_MarkerLines ==
    {m \in C4_Positions :
        /\ Has(C4_Line(m), "Total")
        /\ \E h \in C4_Positions : h[1] = m[1] /\ h[2] < m[2] /\ C4_IsHeader(C4_Line(h))}

\* the sheet rows below the header row whose name contains the marker "Total"
C4_MarkerRows ==
    {i \in DOMAIN pfile.sheet :
        /\ ods_header_row(pfile.sheet) # 0
        /\ i > ods_header_row(pfile.sheet)
        /\ pfile.sheet[i][1] # Null
        /\ Has(pfile.sheet[i][1].s, "Total")}

\* C4: whatever the parser, when a line of the recovered text contains the footer
\* marker "Total" (here: below the table header, the reading most favourable to the
\* parsers), the table has no record taken from that line or from a line after it.
C4_NoRecordFromMarkerOn ==
    C4_Returned =>
        IF pfile.fmt = "ods"
        THEN \A i \in DOMAIN psrc : \A m \in C4_MarkerRows : psrc[i] < m
        ELSE pfile.tables = <<>> =>
                 \A i \in DOMAIN psrc : \A m \in C4_MarkerLines : ~C4_AtOrAfter(psrc[i], m)

\* C5: every record of every table a parser returns has a facility name that is not
\* empty and does not contain "total" in any letter case.
C5_NamesPresentWithoutTotal ==
    C4_Returned =>
        \A i \in DOMAIN pout.df.rows :
            LET r == pout.df.rows[i]
            IN  /\ "Prison Name" \in DOMAIN r
                /\ r["Prison Name"] # Null
                /\ r["Prison Name"].s # ""
                /\ ~Has(Lower(r["Prison Name"].s), "total")

\* the parser has built a table from the rows it collected
C9_Built == C4_Returned /\ pout.df.cols # <<>>

C9_Named(cell) == cell # Null /\ ~Has(Lower(cell.s), "total")

\* the collected rows that have a name without 'total', in the order collected
C9_NamedRows == SelectSeq(data, LAMBDA d : C9_Named(d.cells[1]))

\* the cells of the collected row that record k of the table comes from
C9_SourceCells(k) == data[CHOOSE i \in DOMAIN data : data[i].src = psrc[k]].cells

C9_Cell(cells, j) == IF j <= Len(cells) THEN cells[j] ELSE Null

\* the value of a metric agrees with what the cell says
C9_CoercedAsWritten(cell, value) ==
    /\ cell = Null => value = Null
    /\ cell = Str("N/A") => value = Null
    /\ cell = Str("%") => value = Null
    /\ cell = Str("794") => value = Num(794, 0)
    /\ cell = Str("1,234") => value = Num(1234, 0)
    /\ cell = Str("1,234 ") => value = Num(1234, 0)
    /\ cell = Str("5,000") => value = Num(5000, 0)
    /\ cell = Str("98%") => value = Num(98, 0)
    /\ (cell # Null /\ ~(\E i \in 1..Len(cell.s) : IsDigitCh(Ch(cell.s, i)))) => value = Null

\* rtf, docx, doc, pdf: every collected row with a name is a record of the table
C9_NoRowLostToCoercion ==
    (C9_Built /\ pfile.fmt # "ods") =>
        psrc = [i \in DOMAIN C9_NamedRows |-> C9_NamedRows[i].src]

\* rtf, docx, doc, pdf: the six metrics of every record agree with the cells
C9_MetricsAsWritten ==
    (C9_Built /\ pfile.fmt # "ods") =>
        \A k \in DOMAIN psrc : \A j \in 2..ExpectedColumns :
            C9_CoercedAsWritten(C9_Cell(C9_SourceCells(k), j),
                                pout.df.rows[k][pout.df.cols[j]])

\* the sheet rows between the header row and the first row named 'total'
C9_SheetRows ==
    LET h == ods_header_row(pfile.sheet)
        totals == {i \in (h + 1)..Len(pfile.sheet) :
                      /\ pfile.sheet[i][1] # Null
                      /\ Has(Lower(pfile.sheet[i][1].s), "total")}
    IN  IF h = 0 THEN {}
        ELSE (h + 1)..(IF totals = {} THEN Len(pfile.sheet) ELSE Least(totals) - 1)

\* the positions of the numeric columns in the header row of the sheet
C9_SheetMetrics ==
    LET headers == pfile.sheet[ods_header_row(pfile.sheet)]
    IN  {j \in DOMAIN headers : headers[j] # Null /\ headers[j].s \in Range(ods_numeric_columns)}

\* the cell is a numeral once ',' and ' ' are taken out
C9_IsNumeral(cell) ==
    /\ cell # Null
    /\ \E i \in 1..Len(cell.s) : IsDigitCh(Ch(cell.s, i))
    /\ \A i \in 1..Len(cell.s) : IsDigitCh(Ch(cell.s, i)) \/ Ch(cell.s, i) \in {",", " "}

C9_HasMetric(i) == \E j \in C9_SheetMetrics : C9_IsNumeral(pfile.sheet[i][j])

C9_SheetDated == ods_report_date(FilePath) # Null /\ ods_report_date(FilePath).k = "date"

\* ods: the records are the sheet rows with a number in one of the numeric columns
C9_SheetRowsWithAMetric ==
    (ppc = "done" /\ pfile.fmt = "ods") =>
        IF C9_Built
        THEN /\ Range(psrc) = {i \in C9_SheetRows : C9_HasMetric(i)}
             /\ \A a, b \in DOMAIN psrc : a < b => psrc[a] < psrc[b]
             /\ \A k \in DOMAIN psrc : \A j \in C9_SheetMetrics :
                    C9_CoercedAsWritten(pfile.sheet[psrc[k]][j],
                        pout.df.rows[k][pfile.sheet[ods_header_row(pfile.sheet)][j].s])
        ELSE ~(C9_SheetDated /\ \E i \in C9_SheetRows : C9_HasMetric(i))

\* C9 (amended): numeric coercion turns a metric cell that is not a number ("N/A")
\* into null and a cell such as "1,234" or "1,234 " into 1234; in the rtf, docx,
\* doc and pdf parsers it removes no row, even when every metric of the row is
\* null; the ods parser keeps the rows with a number in one numeric column at least
\* and drops the rows whose numeric columns are all null.
C9_CoercionKeepsRowsWithAMetric ==
    C9_NoRowLostToCoercion /\ C9_MetricsAsWritten /\ C9_SheetRowsWithAMetric

\* a sheet with a row of numbers, whose "1,234 " has become 1234, and a row whose
\* metrics are all null, which is not among the records
C9_Witness ==
    /\ C9_Built /\ pfile.fmt = "ods"
    /\ \E i \in C9_SheetRows : pfile.sheet[i][1] # Null /\ ~C9_HasMetric(i)
    /\ \E k \in DOMAIN psrc : \E j \in C9_SheetMetrics :
           /\ pfile.sheet[psrc[k]][j] = Str("1,234 ")
           /\ pout.df.rows[k]["Population *"] = Num(1234, 0)

\* a text whose row has "N/A" for a metric: the record is there, the metric null
C9_WitnessText ==
    /\ C9_Built /\ pfile.fmt \in TextFormats
    /\ \E k \in DOMAIN psrc :
           /\ C9_SourceCells(k)[3] = Str("N/A")
           /\ pout.df.rows[k]["In Use CNA"] = Null
           /\ pout.df.rows[k]["Population *"] = Num(1234, 0)

\* C9 (as stated): numeric coercion never removes a row, whatever the parser: a row
\* whose name is present is a record even when all its metrics coerce to null.
C9_CoercionNeverRemovesARow ==
    /\ C9_NoRowLostToCoercion
    /\ (ppc = "done" /\ pfile.fmt = "ods" /\ C9_SheetDated) =>
           \A i \in C9_SheetRows : pfile.sheet[i][1] # Null => i \in Range(psrc)

\* the rows the lines of a pdf gave: those collected and those turned away
C10_FromText == pfile.fmt = "pdf" /\ pfile.tables = <<>>

\* the record of the table that comes from position src has the name and the six
\* metric cells given
C10_RecordIs(src, name, cells) ==
    \E k \in DOMAIN psrc :
        /\ psrc[k] = src
        /\ pout.df.rows[k]["Prison Name"] = Str(name)
        /\ \A j \in 2..ExpectedColumns :
               C9_CoercedAsWritten(cells[j - 1], pout.df.rows[k][pout.df.cols[j]])

\* rtf, docx, doc: a row of any number of fields is a record: short of fields it is
\* filled up with null, with more it keeps the first fields
C10_TextRowsFitted ==
    (C9_Built /\ pfile.fmt \in TextFormats) =>
        /\ psrc = [i \in DOMAIN C9_NamedRows |-> C9_NamedRows[i].src]
        /\ \A k \in DOMAIN psrc : \A j \in 2..ExpectedColumns :
               C9_CoercedAsWritten(C9_Cell(C9_SourceCells(k), j),
                                   pout.df.rows[k][pout.df.cols[j]])
        /\ \A i \in DOMAIN data :
               data[i].cells = <<Str("Bure"), Str("%"), Str("N/A")>> =>
                   C10_RecordIs(data[i].src, "Bure", <<Null, Null, Null, Null, Null, Null>>)
        /\ \A i \in DOMAIN data :
               (Len(data[i].cells) = 11 /\ data[i].cells[1] = Str("Cookham Wood")) =>
                   C10_RecordIs(data[i].src, "Cookham Wood",
                                <<Str("1"), Str("2"), Str("3"), Str("4"), Str("5"), Str("6")>>)

\* doc: one row of more than ten fields, or of one field, and the table is empty
C10_DocRejectsOddRows ==
    (ppc = "done" /\ pfile.fmt = "doc"
        /\ \E i \in DOMAIN data : Len(data[i].cells) > 10 \/ Len(data[i].cells) < 2) =>
        pout = Returns(EmptyTable)

\* pdf: a row of fewer than six fields is turned away; a row of six is filled up with
\* null; a row of more than seven has its first fields joined into the name
C10_PdfRowsNearWidth ==
    C10_FromText =>
        /\ \A i \in DOMAIN rejected : Len(rejected[i].cells) < ExpectedColumns - 1
        /\ \A i \in DOMAIN data : Len(data[i].cells) = ExpectedColumns
        /\ \A i \in DOMAIN data :
               Strip(C4_Line(data[i].src)) = "Drake Hall 315 315 340 300 88%" =>
                   data[i].cells = <<Str("Drake Hall"), Str("315"), Str("315"), Str("340"),
                                     Str("300"), Str("88%"), Null>>
        /\ \A i \in DOMAIN data :
               Strip(C4_Line(data[i].src)) = "Cookham Wood 1 2 3 4 5 6 7 8 9 10" =>
                   data[i].cells = <<Str("Cookham Wood 1 2 3 4"), Str("5"), Str("6"), Str("7"),
                                     Str("8"), Str("9"), Str("10")>>
        /\ ppc = "done" =>
               /\ pout.k = "df"
               /\ psrc = [i \in DOMAIN C9_NamedRows |-> C9_NamedRows[i].src]
               /\ \A i \in DOMAIN rejected : rejected[i].src \notin Range(psrc)

\* pdf, the rows taken from the tables of the pages: they make a table when the
\* widest has the expected number of fields; any other width raises
C10_PdfTableRows ==
    (ppc = "done" /\ pfile.fmt = "pdf" /\ pfile.tables # <<>>) =>
        IF data = <<>> THEN pout = Returns(EmptyTable)
        ELSE IF Width([i \in DOMAIN data |-> data[i].cells]) = ExpectedColumns
        THEN /\ pout.k = "df"
             /\ psrc = [i \in DOMAIN C9_NamedRows |-> C9_NamedRows[i].src]
        ELSE pout = Raises

C10_WitnessPadded ==
    /\ C9_Built /\ pfile.fmt \in {"rtf", "docx"}
    /\ \E k \in DOMAIN psrc :
           /\ Len(C9_SourceCells(k)) = 3
           /\ pout.df.rows[k]["% Accommodation Available"] = Null

\* a pdf page with a row of six fields, filled up with null and kept
C10_WitnessSixFields ==
    /\ C10_FromText /\ C4_Returned
    /\ \E k \in DOMAIN psrc :
           /\ Strip(C4_Line(psrc[k])) = "Drake Hall 315 315 340 300 88%"
           /\ pout.df.rows[k]["% Accommodation Available"] = Null

-----------------------------------------------------------------------------
(* C11: header lines with another number of names than the schema *)

\* the header line the loop of a text parser met last; "" before the first
C11_LastHeader ==
    LET lines == pfile.pages[1]
        met == {i \in DOMAIN lines : i < pline /\ is_header_line(Strip(lines[i]))}
    IN  IF met = {} THEN "" ELSE Strip(lines[Greatest(met)])

C11_Schema ==
    <<"Prison Name", "Baseline CNA", "In Use CNA", "Operational Capacity",
      "Population *", "% Pop to In Use CNA", "% Accommodation Available">>

\* the header lines with six, eight and one name
C11_Mismatched == {HeaderSix, HeaderEight, HeaderOne}

C11_Scanning == pfile # Null /\ pfile.fmt \in TextFormats /\ ppc \in {"scan", "done"}

\* C11: in the rtf, docx and doc parsers a header line that gives another number of
\* names than 7 (split on runs of two or more white-space characters, 'Operational'
\* and 'Capacity' made one name when adjacent) is replaced by the standard schema of
\* 7 columns, and the parser goes on without raising: the lines after it are rows
\* of the table under that schema; a header line of 7 names after the merge is kept.
C11_StandardSchemaSubstituted ==
    C11_Scanning =>
        /\ C11_LastHeader \in C11_Mismatched => column_names = C11_Schema
        /\ C11_LastHeader = HeaderSplit =>
               column_names = <<"Prison Name", "Baseline", "In Use", "Operational Capacity",
                                "Population", "% Pop", "% Available">>
        /\ pout # Raises
        /\ (C11_LastHeader \in C11_Mismatched /\ C9_Built) =>
               /\ SubSeq(pout.df.cols, 1, ExpectedColumns) = C11_Schema
               /\ psrc = [i \in DOMAIN data |-> data[i].src]
               /\ \A i \in DOMAIN data : C4_Line(data[i].src) \in RowSamples

\* a text with a header line of six names and a data line, parsed into a table
C11_Witness ==
    /\ C11_Scanning /\ C9_Built
    /\ C11_LastHeader = HeaderSix
    /\ psrc # <<>>

\* the same for the doc parser, with a header line of eight names
C11_WitnessDoc ==
    /\ C11_Scanning /\ C9_Built /\ pfile.fmt = "doc"
    /\ C11_LastHeader = HeaderEight
    /\ Len(psrc) = 2

-----------------------------------------------------------------------------
(* C12: the report date of a file the resolver finds no date for *)

\* the date the file's rows are to carry: what the resolver (for a spreadsheet, the
\* parser's own attempts after it) finds, and the modification date otherwise
C12_Resolved ==
    [e \in Range(FileSamples) |->
        IF Lower(SplitExt(e.name)) = ".ods" THEN ods_report_date(e.name)
        ELSE extract_report_date_from_file(e.name, e.pages)]

C12_Expected(e) == IF C12_Resolved[e] # Null THEN C12_Resolved[e] ELSE e.mtime

\* the files the loop has dispatched so far, each path once
C12_Handled ==
    {i \in DOMAIN cfiles :
        /\ i < cidx
        /\ C1_Usable(cfiles[i])
        /\ \A j \in 1..(i - 1) : PathOf(cfiles[j]) # PathOf(cfiles[i])}

C12_TableOf(e, df) ==
    /\ Len(df.rows) = Len(e.body.df.rows)
    /\ \A r \in DOMAIN df.rows :
          /\ "Report_Date" \in DOMAIN df.rows[r]
          /\ df.rows[r]["Report_Date"] = C12_Expected(e)
          /\ \A c \in DOMAIN e.body.df.rows[r] : df.rows[r][c] = e.body.df.rows[r][c]

\* the original statement: every row of the combined table holds a report date
C12_EveryCombinedRowDated ==
    cpc = "returned" =>
        \A j \in DOMAIN combined.rows : combined.rows[j]["Report_Date"] # Null

\* C12: every file whose parser gives rows and the name column is accumulated
\* with a report date: the one the resolver finds, and the file's modification
\* date when it finds none. The combined table carries that date in the file's
\* rows whenever it is a day a Timestamp represents, and null otherwise.
C12_ModificationDateFallback ==
    /\ cpc \in {"loop", "returned"} =>
          /\ Len(dfs) = Cardinality(C12_Handled)
          /\ \A i \in C12_Handled : \E k \in DOMAIN dfs : C12_TableOf(cfiles[i], dfs[k])
    /\ cpc = "returned" =>
          /\ \A e \in C1_Dispatched :
                C1_Usable(e) =>
                    \A r \in DOMAIN e.body.df.rows :
                        \E j \in DOMAIN combined.rows :
                            /\ C1_Carries(combined.rows[j], e.body.df.rows[r])
                            /\ combined.rows[j]["Report_Date"] =
                                   IF in_timestamp_range(C12_Expected(e))
                                   THEN C12_Expected(e) ELSE Null
          /\ \A j \in DOMAIN combined.rows :
                \/ combined.rows[j]["Report_Date"] # Null
                \/ \E e \in C1_Dispatched :
                      C1_Usable(e) /\ ~in_timestamp_range(C12_Expected(e))

\* a returned table with the rows of a file dated by its modification day
C12_Witness ==
    /\ cpc = "returned"
    /\ \E e \in C1_Dispatched :
          /\ C1_Usable(e) /\ C12_Resolved[e] = Null
          /\ \E j \in DOMAIN combined.rows : combined.rows[j]["Report_Date"] = e.mtime

\* a returned table with a row whose report date did not survive the conversion
C12_WitnessUndatedRow ==
    /\ cpc = "returned"
    /\ \E j \in DOMAIN combined.rows : combined.rows[j]["Report_Date"] = Null

-----------------------------------------------------------------------------
(* C13: the order and the distinctness of the combined rows *)

C13_Day(v) == v.y * 10000 + v.m * 100 + v.d

\* row a may stand before row b: an earlier report date, or the same one and a
\* name that is not greater; rows without a date or a name stand last
C13_MayPrecede(a, b) ==
    LET da == a["Report_Date"]
        db == b["Report_Date"]
        na == a["Prison Name"]
        nb == b["Prison Name"]
    IN  IF da # db
        THEN db = Null \/ (da # Null /\ C13_Day(da) < C13_Day(db))
        ELSE nb = Null \/ (na # Null /\ (na = nb \/ StrLt(na.s, nb.s)))

C13_RowsAccumulated ==
    LET RECURSIVE total(_)
        total(k) == IF k = 0 THEN 0 ELSE total(k - 1) + Len(dfs[k].rows)
    IN  total(Len(dfs))

\* C13: the table combine_prison_data returns, which is the one it writes to
\* combined_prison_data.csv, is ordered by (Report_Date, Prison Name) and holds no
\* row twice.
C13_SortedWithoutDuplicates ==
    cpc = "returned" =>
        /\ \A i, j \in DOMAIN combined.rows :
              i < j => /\ C13_MayPrecede(combined.rows[i], combined.rows[j])
                       /\ combined.rows[i] # combined.rows[j]
        /\ cwrites[Len(cwrites)] = [file |-> "combined_prison_data.csv", from |-> "combined"]
        /\ \A i \in DOMAIN dfs : \A r \in DOMAIN dfs[i].rows :
              \E j \in DOMAIN combined.rows :
                  \A c \in DOMAIN dfs[i].rows[r] \ (C1_Denylist \cup {"Report_Date"}) :
                      combined.rows[j][c] = dfs[i].rows[r][c]

\* a run whose files repeat rows and give them out of order: Brixton before
\* Altcourse on the same day, twice over
C13_Witness ==
    /\ cpc = "returned"
    /\ Len(combined.rows) >= 3
    /\ C13_RowsAccumulated > Len(combined.rows)
    /\ \E i \in DOMAIN dfs :
          /\ Len(dfs[i].rows) = 2
          /\ ~C13_MayPrecede(dfs[i].rows[1], dfs[i].rows[2])
    /\ \E i, j \in DOMAIN combined.rows :
          /\ i < j
          /\ combined.rows[i]["Report_Date"] = combined.rows[j]["Report_Date"]

-----------------------------------------------------------------------------
(* C14: the columns of the combined table *)

C14_Union == UNION {Range(dfs[i].cols) : i \in DOMAIN dfs}

\* row c of the combined table is row r of an accumulated table with the columns
\* cols: r's values where the table has the column, null where it has not
C14_Standardized(c, r, cols) ==
    /\ DOMAIN c = C14_Union \ C1_Denylist
    /\ \A col \in DOMAIN c :
          IF col \notin cols THEN c[col] = Null
          ELSE IF col = "Report_Date" THEN c[col] = to_datetime_value(r[col])
          ELSE c[col] = r[col]

\* C14: the combined table has the columns of all accumulated tables together,
\* the two percentage columns aside, and the rows of a table that lacks one of
\* them hold null there.
C14_ColumnUnionNullFilled ==
    cpc = "returned" =>
        /\ combined.cols = C14_Union \ C1_Denylist
        /\ \A j \in DOMAIN combined.rows : DOMAIN combined.rows[j] = combined.cols
        /\ \A i \in DOMAIN dfs : \A r \in DOMAIN dfs[i].rows :
              \E j \in DOMAIN combined.rows :
                  C14_Standardized(combined.rows[j], dfs[i].rows[r], Range(dfs[i].cols))
        /\ \A j \in DOMAIN combined.rows :
              \E i \in DOMAIN dfs : \E r \in DOMAIN dfs[i].rows :
                  C14_Standardized(combined.rows[j], dfs[i].rows[r], Range(dfs[i].cols))

\* tables of different columns, one of them with a percentage column, combined:
\* a row holds null in a column only another file has
C14_Witness ==
    /\ cpc = "returned"
    /\ \E i \in DOMAIN dfs : Range(dfs[i].cols) \cap C1_Denylist # {}
    /\ \E i \in DOMAIN dfs : \E col \in combined.cols :
          /\ col \notin Range(dfs[i].cols)
          /\ \E j \in DOMAIN combined.rows :
                /\ combined.rows[j][col] = Null
                /\ combined.rows[j]["Prison Name"] = dfs[i].rows[1]["Prison Name"]

-----------------------------------------------------------------------------
(* C15: the per-file CSV files *)

\* the parser of file e handed a non-empty table to save_to_csv
C15_Saved(e) == C1_Results[e] # Raises /\ ~df_is_empty(C1_Results[e].df)

C15_CsvOf(e) == Stem(e.name) \o ".csv"

\* C15: after a run that returns, every file parsed into a non-empty table has
\* its own <stem>.csv, written from that file and from no other file of the run.
C15_OwnCsvNeverOverwritten ==
    cpc = "returned" =>
        \A e \in C1_Dispatched :
            C15_Saved(e) =>
                /\ \E w \in DOMAIN cwrites :
                      cwrites[w] = [file |-> C15_CsvOf(e), from |-> PathOf(e)]
                /\ \A w \in DOMAIN cwrites :
                      cwrites[w].file = C15_CsvOf(e) => cwrites[w].from = PathOf(e)

-----------------------------------------------------------------------------
(* C16: the files the combiner enumerates *)

\* the extension of e is a supported one in some letter case
C16_Supported(e) == Lower(SplitExt(e.name)) \in Range(extensions)

\* C16: every file of the directory and its subdirectories whose extension is a
\* supported one in any letter case is enumerated, and by the end of the loop has
\* been dispatched.
C16_EveryLetterCaseEnumerated ==
    /\ cpc \in {"loop", "returned", "raised"} /\ cerr \in {"none", "ValueError"} =>
          \A i \in DOMAIN cdir :
              C16_Supported(cdir[i]) => \E j \in DOMAIN cfiles : cfiles[j] = cdir[i]
    /\ cpc = "loop" /\ cidx > Len(cfiles) =>
          \A i \in DOMAIN cdir :
              C16_Supported(cdir[i]) => PathOf(cdir[i]) \in processed_files

-----------------------------------------------------------------------------
(* C17: the parsers are functions of the recovered text *)

-----------------------------------------------------------------------------
(* C18, C19, C20: the recovery stages of doc_to_text *)

C18_Order == <<"word", "ole", "antiword", "catdoc", "convert", "raw">>

C18_Rank(stage) == CHOOSE i \in DOMAIN C18_Order : C18_Order[i] = stage

\* the stages the platform runs
C18_Applicable ==
    {C18_Order[i] : i \in {k \in DOMAIN C18_Order :
                              C18_Order[k] \in {"word", "convert"} => tsystem = "Windows"}}

C18_Attempted(n) == {ttrace[j].stage : j \in 1..n}

\* C18: the stages run in the order editor automation, container stream,
\* antiword, catdoc, conversion to docx, raw-byte scan, the first and the fifth
\* on Windows only; a stage runs only after every applicable stage before it has
\* run and given no accepted text, and the function returns at the first stage
\* that accepts its text, or with the empty text after the last stage.
C18_StagesInFixedOrder ==
    /\ tpc \notin {"idle", "call", "skipped"} =>
          /\ \A i \in DOMAIN ttrace :
                /\ ttrace[i].stage \in C18_Applicable
                /\ C18_Attempted(i) =
                       {st \in C18_Applicable : C18_Rank(st) <= C18_Rank(ttrace[i].stage)}
                /\ \A j \in DOMAIN ttrace :
                      i < j => /\ C18_Rank(ttrace[i].stage) < C18_Rank(ttrace[j].stage)
                               /\ ttrace[i].result \in {"none", "rejected", "error"}
          /\ tpc # "returned" =>
                /\ tpc \in C18_Applicable
                /\ C18_Attempted(Len(ttrace)) =
                       {st \in C18_Applicable : C18_Rank(st) < C18_Rank(tpc)}
                /\ tout = <<>>
    /\ tpc = "returned" =>
          \/ /\ ttrace[Len(ttrace)].result = "accepted"
             /\ tout # <<>>
          \/ /\ ttrace[Len(ttrace)].result # "accepted"
             /\ tout = <<>>
             /\ C18_Attempted(Len(ttrace)) = C18_Applicable

\* on Windows the conversion stage returns a text after the four stages before it
\* gave none, refused theirs or failed
C18_Witness ==
    /\ tpc = "returned"
    /\ tsystem = "Windows"
    /\ Len(ttrace) = 5
    /\ ttrace[5] = [stage |-> "convert", result |-> "accepted"]
    /\ ttrace[1].result = "rejected"
    /\ ttrace[2].result = "error"
    /\ ttrace[3].result = "none"
    /\ tout # <<>>

C19_LastStage == ttrace[Len(ttrace)].stage

C19_Witness ==
    /\ tpc = "returned"
    /\ C19_LastStage \in {"antiword", "catdoc"}
    /\ tout # <<>>
    /\ \E i \in DOMAIN ttrace : ttrace[i].result = "rejected"

C20_HandleReleasedOnEveryExit == tpc # "idle" => tquit = tacquired

\* ---------------------------------------------------------------------------
\* C21: the end of the data section is final
\* ---------------------------------------------------------------------------

\* the lines the loop has already gone through
C21_Scanned(pos) ==
    IF pfile.fmt = "pdf"
    THEN pos[1] < ppage \/ (pos[1] = ppage /\ pos[2] < pline)
    ELSE pos[2] < pline

\* a line with one of the four footer markers has been gone through below a table
\* header of its page, that is, while the parser was in the data section
C21_MarkerSeen ==
    /\ pfile.fmt # "ods"
    /\ \E m \in C4_Positions :
          /\ C21_Scanned(m)
          /\ is_footer_line(Strip(C4_Line(m)))
          /\ \E h \in C4_Positions : h[1] = m[1] /\ h[2] < m[2] /\ C4_IsHeader(C4_Line(h))

\* C21: once a line with a footer marker ("Sub total", "NOMS Operated", "Definitions
\* of Accommodation", "Total") has been seen in the data section, no later line of
\* the document adds a row, whichever line parser (rtf, docx, doc, pdf) reads it.
C21_NoRowAfterMarker ==
    [][(ppc = "scan" /\ ppc' = "scan" /\ C21_MarkerSeen) => data' = data]_vars

\* the same for the parsers of recovered text only (rtf, docx, doc)
C21_NoTextRowAfterMarker ==
    [][(ppc = "scan" /\ ppc' = "scan" /\ pfile.fmt \in TextFormats /\ C21_MarkerSeen)
           => data' = data]_vars

\* a text parser is past a marker line and reads a line that would be a data row
C21_WitnessText ==
    /\ ppc = "scan"
    /\ pfile.fmt \in TextFormats
    /\ C21_MarkerSeen
    /\ data_section_ended
    /\ pline <= Len(pfile.pages[1])
    /\ is_data_line(Strip(pfile.pages[1][pline]))
    /\ row_of_line(Strip(pfile.pages[1][pline])) # <<>>

\* ---------------------------------------------------------------------------
\* C22: the final page of a pdf
\* ---------------------------------------------------------------------------

\* the page a returned record comes from: the page of its line, or, when the rows
\* were taken from the tables of the pages, the page its table is on (in the files
\* that have tables the lines give no row, so the tables are what is read)
C22_PageOf(src) == IF pfile.tables # <<>> THEN pfile.tpages[src[1]] ELSE src[1]

C22_PdfReturned == C4_Returned /\ pfile.fmt = "pdf"

\* C22: no row of the table extract_data_from_pdf returns is taken from the final
\* page of a document of more than one page, and the only page of a single-page
\* document is not passed over.
C22_NoRowFromFinalPage ==
    /\ C22_PdfReturned =>
          \A i \in DOMAIN psrc :
              Len(pfile.pages) > 1 => C22_PageOf(psrc[i]) < Len(pfile.pages)
    /\ (pfile.fmt = "pdf" /\ Len(pfile.pages) = 1 /\ pfile.pages[1] # <<>>) =>
          ~page_skipped(pfile.pages, 1)

\* the same for the rows read from the lines of the pages
C22_NoLineRowFromFinalPage ==
    (C22_PdfReturned /\ pfile.tables = <<>>) =>
        \A i \in DOMAIN psrc : Len(pfile.pages) > 1 => psrc[i][1] < Len(pfile.pages)

\* a document of two pages whose final page has the header and a data row
C22_WitnessLines ==
    /\ C22_PdfReturned
    /\ pfile.tables = <<>>
    /\ Len(pfile.pages) = 2
    /\ Len(pfile.pages[2]) = 2
    /\ is_pdf_header_line(pfile.pages[2][1])
    /\ pdf_row_of_line(pfile.pages[2][2], Null) # <<>>

\* the rows of a file with tables are read from the tables
C22_TablesReadWhenLinesGiveNoRow ==
    (ppc = "scan" /\ pfile.fmt = "pdf" /\ pfile.tables # <<>>) => data = <<>>

\* ---------------------------------------------------------------------------
\* C23: rows with another number of fields than the header has columns
\* ---------------------------------------------------------------------------

\* the string cells of a row from position a to position b, joined by single spaces
C23_Joined(cells, a, b) == Str(JoinSp([i \in 1..(b - a + 1) |-> cells[a + i - 1].s]))

\* record k of the table has the name given and, for its six metrics, the values of
\* the cells of the row from position first on
C23_RecordHas(k, name, cells, first) ==
    /\ pout.df.rows[k]["Prison Name"] = name
    /\ \A j \in 2..ExpectedColumns :
           pout.df.rows[k][pout.df.cols[j]] = clean_numeric(C9_Cell(cells, first + j - 2))

\* a row with its first fields joined into the name so that six metrics remain
C23_FoldedRecord(k, cells) ==
    LET n == Len(cells)
    IN  C23_RecordHas(k, C23_Joined(cells, 1, n - ExpectedColumns + 1), cells,
                      n - ExpectedColumns + 2)

\* the row a line of a pdf page gives by itself (its first part opens no numeric
\* data, so that no prison name held from the line before enters the row)
C23_OwnRow(d) ==
    LET line == Strip(C4_Line(d.src))
    IN  IF is_pdf_numeric_part(Split(line)[1]) THEN <<>> ELSE pdf_row_of_line(line, Null)

\* pdf: a row of more than seven fields has its first fields joined into the name
\* and keeps its last six; a row of six is filled up with null
C23_PdfRowsFolded ==
    C10_FromText =>
        \A i \in DOMAIN data :
            LET r == C23_OwnRow(data[i])
                n == Len(r)
            IN  r # <<>> =>
                    IF n > ExpectedColumns
                    THEN /\ data[i].cells[1] = C23_Joined(r, 1, n - ExpectedColumns + 1)
                         /\ \A j \in 2..ExpectedColumns :
                                data[i].cells[j] = r[n - ExpectedColumns + j]
                    ELSE data[i].cells = r \o [j \in 1..(ExpectedColumns - n) |-> Null]

\* rtf, docx, doc: a record has the name of its row as collected and the values of
\* the six fields after it; further fields are left out, missing ones are null
C23_TextRowsCut ==
    (C9_Built /\ pfile.fmt \in TextFormats) =>
        \A k \in DOMAIN psrc :
            C23_RecordHas(k, C9_SourceCells(k)[1], C9_SourceCells(k), 2)

C23_WitnessPdf ==
    /\ C10_FromText /\ C4_Returned
    /\ \E i \in DOMAIN data :
           /\ Len(C23_OwnRow(data[i])) > ExpectedColumns
           /\ data[i].src \in Range(psrc)

C24_Decoded(cell) == parse_float(Without(Without(cell.s, ","), "%"))

\* the conditions under which the table is to be rejected
C24_ToReject(rows) ==
    \/ Len(rows) < 2
    \/ \E i \in DOMAIN rows : Len(rows[i]) < 2 \/ Len(rows[i]) > 10
    \/ \E i \in DOMAIN rows :
           Len(rows[i]) >= 1 /\ (rows[i][1] = Null \/ ~HasLetter(rows[i][1].s))
    \/ \E i \in DOMAIN rows : \E j \in 2..Len(rows[i]) :
           /\ rows[i][j] # Null
           /\ C24_Decoded(rows[i][j]) # Null
           /\ \/ C24_Decoded(rows[i][j]) = [k |-> "inf", neg |-> TRUE]
              \/ C24_Decoded(rows[i][j]) = [k |-> "inf", neg |-> FALSE]
              \/ /\ C24_Decoded(rows[i][j]).k = "num"
                 /\ \/ C24_Decoded(rows[i][j]).m < 0
                    \/ C24_Decoded(rows[i][j]).m > 10000 * Pow10(C24_Decoded(rows[i][j]).e)

\* tables handed to the validator directly: rows of one field, a name that is no
\* string, a name without a letter, a metric that is no number, no row at all
C24_DirectTables ==
    { <<>>,
      << <<Str("Altcourse"), Str("794")>> >>,
      << <<Str("Altcourse"), Str("794")>>, <<Str("Bure"), Str("604")>> >>,
      << <<Str("Altcourse"), Str("794")>>, <<Str("Bure")>> >>,
      << <<Str("Altcourse"), Str("794")>>, <<Null, Str("604")>> >>,
      << <<Str("Altcourse"), Str("794")>>, <<Str("12"), Str("604")>> >>,
      << <<Str("Altcourse"), Str("N/A")>>, <<Str("Bure"), Null>> >>,
      << <<Str("Altcourse"), Str("10,000.5")>>, <<Str("Bure"), Str("604")>> >>,
      << <<Str("Altcourse"), Str("10000")>>, <<Str("Bure"), Str("0")>> >>,
      << <<Str("Altcourse"), Str("-0.5%")>>, <<Str("Bure"), Str("604")>> >> }

C24_DirectVerdicts == [t \in C24_DirectTables |-> validate_prison_data(t)]

\* the validator accepts a table handed to it exactly when nothing is to be rejected
C24_DirectAgree == \A t \in C24_DirectTables : C24_DirectVerdicts[t] <=> ~C24_ToReject(t)

\* the rows the legacy-binary parser has collected from a text that passed the gate
C24_Collected == [i \in DOMAIN data |-> data[i].cells]

C24_DocFinished == ppc = "done" /\ pfile.fmt = "doc" /\ data # <<>>

\* C24: validate_prison_data rejects the table exactly when it has fewer than two
\* rows, or a row of fewer than two or more than ten fields, or a name that is no
\* string with a letter, or a non-null metric that, with ',' and '%' removed, writes
\* a number below 0 or above 10000; a metric that writes no number rejects nothing;
\* and extract_data_from_doc returns the empty table whenever the validator rejects.
C24_ValidatorRejectsExactly ==
    /\ C24_DirectAgree
    /\ C24_DocFinished =>
           /\ validate_prison_data(C24_Collected) <=> ~C24_ToReject(C24_Collected)
           /\ C24_ToReject(C24_Collected) => pout = Returns(EmptyTable)
           /\ ~C24_ToReject(C24_Collected) => C9_Built

\* a legacy file with two named rows one of whose metrics is above the range
C24_Witness ==
    /\ C24_DocFinished
    /\ Len(data) = 2
    /\ \A i \in DOMAIN data : Len(data[i].cells) = 3 /\ HasLetter(data[i].cells[1].s)
    /\ \E i \in DOMAIN data : data[i].cells[3] = Str("12,345")
    /\ pout = Returns(EmptyTable)

\* a legacy file with a metric that writes no number, which is parsed into a table
C24_WitnessNotANumber ==
    /\ C24_DocFinished
    /\ \E i \in DOMAIN data : data[i].cells[3] \in {Str("N/A"), Str("nan")}
    /\ C9_Built

\* ---------------------------------------------------------------------------
\* C25: the order of the arrangements in the filename scan
\* ---------------------------------------------------------------------------

\* the tests of the filename scan that match the name
C25_Hits(name) ==
    LET year == year_match(name)
    IN  IF year = Null THEN {}
        ELSE {t \in 1..NumTests :
                 arrangement_matches(name, test_month(t).name, test_separator(t), year.s,
                                     test_arrangement(t))}

C25_FromFilename == dpc = "done" /\ dsrc = "filename"

\* the date comes from a month standing alone between separators
C25_IsolatedMonthReturned ==
    /\ C25_FromFilename
    /\ test_arrangement(Least(C25_Hits(Lower(dname)))) = 3

\* C25: the filename scan returns the date of a month standing alone near a
\* separator only when no recognized month is next to the year, before it or after
\* it, anywhere in the name.
C25_IsolatedMonthOnlyWithoutAdjacentMonth ==
    C25_IsolatedMonthReturned =>
        \A t \in C25_Hits(Lower(dname)) : test_arrangement(t) = 3

\* summary_may_v2_2022: the month stands alone and no month is next to the year
C25_WitnessIsolated ==
    /\ C25_IsolatedMonthReturned
    /\ \A t \in C25_Hits(Lower(dname)) : test_arrangement(t) = 3

\* ---------------------------------------------------------------------------
\* C26: the day of a date derived from the file name
\* ---------------------------------------------------------------------------

\* spreadsheet names, with month and year in the arrangements of both scans
C26_Names == {stem \o ".ods" : stem \in DateStems}

\* what the date scan and the spreadsheet parser make of each name
C26_Resolved == [n \in C26_Names |-> extract_report_date_from_file(n, <<>>)]

C26_OdsDate == [n \in C26_Names |-> ods_report_date(n)]

C26_IsMonthEnd(date) == date.k = "date" /\ date.d = C7_Day(date.m)

\* the names: a date of the date scan is a month end and is the date of the
\* spreadsheet; a date of the spreadsheet parser's own scan is the first of a month
C26_NamesAsAmended ==
    \A n \in C26_Names :
        /\ C26_Resolved[n] # Null => C26_IsMonthEnd(C26_Resolved[n]) /\ C26_OdsDate[n] = C26_Resolved[n]
        /\ (C26_Resolved[n] = Null /\ C26_OdsDate[n] # Null) =>
               C26_OdsDate[n].k = "date" /\ C26_OdsDate[n].d = 1

C26_NamesAsStated == \A n \in C26_Names : C26_OdsDate[n] # Null => C26_IsMonthEnd(C26_OdsDate[n])

\* the parser has returned records dated from the file name (no page of the
\* samples holds a report date)
C26_DatedFromName ==
    /\ C9_Built
    /\ pout.df.rows # <<>>
    /\ "Report_Date" \in Range(pout.df.cols)
    /\ \A p \in DOMAIN PageTexts : ~Has(PageTexts[p], "Report Date:")

\* the spreadsheet got its date from the parser's own scan of the name
C26_OwnScan == pfile.fmt = "ods" /\ extract_report_date_from_file(FilePath, <<>>) = Null

\* C26 (amended): a Report_Date that extract_report_date_from_file derives from a
\* file name is the last day of the month under the 28/30/31 rule, for every
\* parser; a Report_Date that extract_data_from_ods derives through its own scan
\* of the name, when that function returns no date, is the first day of the month.
C26_MonthEndOrFirstForOwnScan ==
    /\ C26_NamesAsAmended
    /\ C26_DatedFromName =>
           \A i \in DOMAIN pout.df.rows :
               LET date == pout.df.rows[i]["Report_Date"]
               IN  /\ date.k = "date"
                   /\ date.d = IF C26_OwnScan THEN 1 ELSE C7_Day(date.m)

\* 2022 aug.ods: records dated by the spreadsheet parser's own scan
C26_Witness ==
    /\ C26_DatedFromName
    /\ C26_OwnScan
    /\ \E i \in DOMAIN pout.df.rows : pout.df.rows[i]["Report_Date"] = Date(2022, 8, 1)

\* prison-pop-august-2022: records dated by the date scan
C26_WitnessMonthEnd ==
    /\ C26_DatedFromName
    /\ ~C26_OwnScan
    /\ \E i \in DOMAIN pout.df.rows : pout.df.rows[i]["Report_Date"] = Date(2022, 8, 31)

\* C26 (as stated): every Report_Date a parser derives from a file name is the last
\* day of the matched month, the dates of the spreadsheet parser's own scan included.
C26_EveryFilenameDateIsMonthEnd ==
    /\ C26_NamesAsStated
    /\ C26_DatedFromName =>
           \A i \in DOMAIN pout.df.rows : C26_IsMonthEnd(pout.df.rows[i]["Report_Date"])

\* ---------------------------------------------------------------------------
\* C27: temporary files ('~$' names) in the legacy-binary parser
\* ---------------------------------------------------------------------------

C27_TempPath == StartsWith(basename(tcall.path), "~$")

\* the tabular parser, given the path of a temporary file, returns the empty table
\* and no stage of the text recovery has run
C27_ParserSkipsTempFile ==
    (tcall.caller = "extract_data_from_doc" /\ C27_TempPath) =>
        /\ tpc \in {"call", "skipped"}
        /\ ttrace = <<>>
        /\ tout = <<>>

\* C27 (amended): extract_data_from_doc returns the empty table for a path whose
\* name begins with '~$' without running any stage of the text recovery, on the
\* temporary file or on any other. When doc_to_text itself is given such a path
\* (as the date scan does), only the two Word automation stages, on Windows, open
\* the file named without '~$', and only when it exists; every other stage reads
\* the temporary file.
C27_SkippedByParserSiblingOnlyInWord ==
    /\ C27_ParserSkipsTempFile
    /\ Len(topened) = Len(ttrace)
    /\ \A i \in DOMAIN ttrace :
           topened[i] = "original" <=>
               /\ ttrace[i].stage \in {"word", "convert"}
               /\ C27_TempPath
               /\ tcall.sibling

\* the parser has skipped a temporary file whose original exists
C27_Witness ==
    /\ tpc = "skipped"
    /\ tcall.path = "data/~$report.doc"
    /\ tcall.sibling

\* the date scan on Windows: the Word stage was directed at the original, the
\* container stage at the temporary file
C27_WitnessDateScan ==
    /\ tcall.caller = "extract_report_date_from_file"
    /\ C27_TempPath /\ tcall.sibling
    /\ Len(topened) >= 2
    /\ topened[1] = "original"
    /\ topened[2] = "given"

\* C27 (as stated): the parser skips a temporary file without running any stage,
\* and whenever the file named without '~$' exists, that file is the one whose
\* content is recovered.
C27_SkippedAndSiblingRecovered ==
    /\ C27_ParserSkipsTempFile
    /\ (C27_TempPath /\ tcall.sibling) =>
           /\ \A i \in DOMAIN topened : topened[i] = "original"
           /\ tpc \in {"returned", "skipped"} => ttrace # <<>>

\* ---------------------------------------------------------------------------
\* C28: one file through extract_prison_data and process_prison_file
\* ---------------------------------------------------------------------------

C28_Supported == Lower(SplitExt(xfile.name)) \in {".ods", ".rtf", ".pdf", ".docx", ".doc"}

\* what the parser of the file's format gives for the file, date stage included
C28_ParserTable == [e \in ProcessInputs |-> parser_result(e)]

\* the format parser can extract rows from the file
C28_ParserExtractsRows ==
    /\ C28_Supported
    /\ C28_ParserTable[xfile] # Raises
    /\ C28_ParserTable[xfile].df.rows # <<>>

\* C28: extract_prison_data returns the table of the parser of the lower-cased
\* extension; process_prison_file returns a table with rows and a Report_Date for
\* every supported file from which that parser can extract rows; the empty table
\* is returned only for an unsupported extension or a file the parser cannot parse.
C28_DispatchedAndProcessed ==
    /\ (xpc \in {"process", "done"} /\ C28_ParserExtractsRows) =>
           xdf = C28_ParserTable[xfile]
    /\ xpc = "done" =>
           IF C28_ParserExtractsRows
           THEN /\ xout.df.rows # <<>>
                /\ "Report_Date" \in Range(xout.df.cols)
           ELSE xout = Returns(EmptyTable)

\* what the two functions do as written: the empty table for every file
C28_AlwaysEmpty ==
    /\ xpc \in {"process", "done"} => xdf = Returns(EmptyTable)
    /\ xpc = "done" => xout = Returns(EmptyTable)

\* a spreadsheet from which the parser extracts rows has gone through both functions
C28_WitnessEmptyForParsableFile ==
    /\ xpc = "done"
    /\ xfile.name = "prison-pop-august-2022.ods"
    /\ C28_ParserExtractsRows
    /\ xout = Returns(EmptyTable)

\* ---------------------------------------------------------------------------
\* C29: one parser call per path, files in turn, aggregation after the loop
\* ---------------------------------------------------------------------------

\* the paths of the entries of "files" the loop has been through
C29_Attempted == {PathOf(cfiles[i]) : i \in 1..(cidx - 1)}

\* the enumeration lists the path of entry i more than once
C29_ListedAgain(i) == \E j \in DOMAIN cfiles : j # i /\ PathOf(cfiles[j]) = PathOf(cfiles[i])

\* what the parsers leave behind: a csv per call that gave rows, a table in dfs per
\* call that gave a prison table
C29_ParserWrites == SelectSeq(cwrites, LAMBDA w : w.from # "combined")
C29_RowGivers ==
    {e \in Range(FileSamples) :
        /\ Lower(SplitExt(e.name)) \in Range(extensions)
        /\ parser_result(e) # Raises
        /\ ~df_is_empty(parser_result(e).df)}
C29_TableGivers == {e \in C29_RowGivers : is_valid_prison_table(parser_result(e).df)}
C29_GivesRows(e) == e \in C29_RowGivers
C29_GivesTable(e) == e \in C29_TableGivers

C29_AtMostOnce ==
    cpc \in {"loop", "returned", "raised"} /\ cidx >= 1 =>
        /\ \A i, j \in DOMAIN C29_ParserWrites :
               C29_ParserWrites[i].from = C29_ParserWrites[j].from => i = j
        /\ cenv.out # "read_only" =>
               {C29_ParserWrites[i].from : i \in DOMAIN C29_ParserWrites}
                   = {PathOf(cfiles[i]) : i \in {k \in 1..(cidx - 1) : C29_GivesRows(cfiles[k])}}
        /\ Len(dfs) = Cardinality({PathOf(cfiles[i]) :
                                      i \in {k \in 1..(cidx - 1) : C29_GivesTable(cfiles[k])}})

C29_AggregationAfterLoop ==
    (cpc = "returned" \/ cerr \in {"ValueError", "PermissionError"}) =>
        /\ cidx = Len(cfiles) + 1
        /\ processed_files = {PathOf(cfiles[i]) : i \in DOMAIN cfiles}

\* a pass of the loop deals with the entry at hand and with no other, and the
\* combined table appears only in a step taken after the last entry
C29_OneAfterAnother ==
    /\ (cpc = "loop" /\ cidx <= Len(cfiles)) =>
           /\ cidx' = cidx + 1 /\ cpc' = "loop" /\ combined' = combined
           /\ processed_files' = processed_files \cup {PathOf(cfiles[cidx])}
           /\ \/ cwrites' = cwrites
              \/ /\ Len(cwrites') = Len(cwrites) + 1
                 /\ cwrites'[Len(cwrites')].from = PathOf(cfiles[cidx])
                 /\ PathOf(cfiles[cidx]) \notin C29_Attempted
           /\ dfs' # dfs => Len(dfs') = Len(dfs) + 1 /\ PathOf(cfiles[cidx]) \notin C29_Attempted
    /\ (cpc = "loop" /\ cpc' # "loop") => cidx > Len(cfiles)

\* C29: within one run the files are handled one after another, each path is given
\* to a parser at most once however often the enumeration lists it, and the
\* aggregation starts only after every enumerated file has been attempted.
C29_EachPathOnceThenAggregate ==
    /\ [](C29_AtMostOnce /\ C29_AggregationAfterLoop)
    /\ [][C29_OneAfterAnother]_vars

\* a path listed twice has been through the loop twice, its parser wrote one csv,
\* one table was accumulated for it and the run has returned the combined table
C29_Witness ==
    /\ cpc = "returned"
    /\ \E i \in DOMAIN cfiles :
           /\ C29_ListedAgain(i)
           /\ C29_GivesTable(cfiles[i])
           /\ Cardinality({k \in DOMAIN cwrites : cwrites[k].from = PathOf(cfiles[i])}) = 1
    /\ Len(dfs) < Len(cfiles)

\* ---------------------------------------------------------------------------
\* C30: texts of the container-stream and byte-scan stages are single lines
\* ---------------------------------------------------------------------------

C30_Returned == OleReturned \cup RawReturned

\* the lines extract_data_from_doc splits such a text into
C30_Pages == {<<text_lines(Decode(t))>> : t \in C30_Returned}

C30_NoLineBreak == \A t \in C30_Returned : \A i \in DOMAIN t : t[i] \notin {10, 13}

C30_FromTwoStages == pfile # Null /\ pfile.fmt = "doc" /\ pfile.pages \in C30_Pages

\* C30: a text doc_to_text returns from its container-stream stage or from its
\* byte-scan stage holds no line break, so extract_data_from_doc splits it into a
\* single line, collects no row from it and returns the empty table.
C30_SingleLineGivesEmptyTable ==
    /\ C30_NoLineBreak
    /\ C30_FromTwoStages =>
           /\ Len(pfile.pages[1]) = 1
           /\ data = <<>>
           /\ ppc = "done" => pout = Returns(EmptyTable)

C30_TablePages == <<text_lines(Decode(ole_text(TableBytes)))>>
C30_RawOnlyPages == {<<text_lines(Decode(t))>> : t \in RawReturned \ OleReturned}

\* the stream text with the header and two prison rows has passed the validity
\* gate, has been scanned as one line and has given the empty table
C30_Witness ==
    /\ C30_FromTwoStages
    /\ pfile.pages = C30_TablePages
    /\ Has(pfile.pages[1][1], "Prison Name")
    /\ Has(pfile.pages[1][1], "Altcourse 794")
    /\ Has(pfile.pages[1][1], "Bure 604")
    /\ in_data_section
    /\ ppc = "done"
    /\ pout = Returns(EmptyTable)

\* a byte-scan text that is not valid has been turned away at the gate
C30_WitnessGate ==
    /\ C30_FromTwoStages
    /\ pfile.pages \in C30_RawOnlyPages
    /\ ~in_data_section
    /\ pline = 1
    /\ ppc = "done"
    /\ pout = Returns(EmptyTable)

=============================================================================
